---- MODULE Spec2Model ----
(***************************************************************************)
(* TriVital_Monitor: the ECG, RESP and SpO2 signal pipelines of            *)
(* App/ECG/ECG.c (which also holds the SpO2 module) and App/RESP/RESP.c.   *)
(*                                                                         *)
(* Numbers.  A C double is modelled in fixed point: the integer x stands   *)
(* for the real x / Q.  Sums, differences and comparisons are exact; a     *)
(* product with a filter coefficient and a quotient are rounded toward     *)
(* zero at that resolution (the C code rounds them at the resolution of a  *)
(* double).  A C int is a plain integer; (int)d is ToInt(d).               *)
(*                                                                         *)
(* Sizes.  The analysis windows (300, 1000 and 300 samples in the source)  *)
(* and the RESP smoother (100 samples) are scaled down to HR_WAVE_LEN,     *)
(* BR_WAVE_LEN, SP_WAVE_LEN and RESP_WindowsLen samples.                   *)
(***************************************************************************)
EXTENDS Integers, Sequences, FiniteSets, TLC

(* ------------------------------ numbers -------------------------------- *)

\* resolution of the model's reals: x stands for x / Q
Q == 4

Abs(x) == IF x < 0 THEN -x ELSE x

Sgn(x) == IF x < 0 THEN -1 ELSE 1

\* C division of x by d > 0, rounded toward zero
TruncDiv(x, d) == Sgn(x) * (Abs(x) \div d)

\* (double)n of an int n
ToReal(n) == n * Q

\* (int)x of a double x: the fraction is discarded
ToInt(x) == TruncDiv(x, Q)

\* x / k for a double x and a positive integer constant k
FDiv(x, k) == TruncDiv(x, k)

\* c * x for a coefficient c given in 1/10000 and a double x
CoefMul(c, x) ==
  LET m == Abs(x)
      q == m \div 10000
      r == m % 10000
  IN Sgn(x) * (c * q + TruncDiv(c * r, 10000))

\* what a conversion of an infinity or a NaN to int may yield (undefined in C)
UndefinedInt == {0, 2147483647, -2147483647 - 1}

Zeros(n) == [k \in 1..n |-> 0]

RECURSIVE SeqSum(_)
SeqSum(s) == IF s = <<>> THEN 0 ELSE Head(s) + SeqSum(Tail(s))

RECURSIVE ScanMax(_, _, _, _)
\* the running maximum of w[from..to] (1-based) started at m
ScanMax(w, from, to, m) ==
  IF from > to THEN m
  ELSE ScanMax(w, from + 1, to, IF w[from] > m THEN w[from] ELSE m)

RECURSIVE ScanMin(_, _, _, _)
\* the running minimum of w[from..to] (1-based) started at m
ScanMin(w, from, to, m) ==
  IF from > to THEN m
  ELSE ScanMin(w, from + 1, to, IF w[from] < m THEN w[from] ELSE m)

SeqMax(s) == CHOOSE x \in {s[k] : k \in DOMAIN s} : \A k \in DOMAIN s : s[k] <= x

SeqMin(s) == CHOOSE x \in {s[k] : k \in DOMAIN s} : \A k \in DOMAIN s : s[k] >= x

(* --------------------------- shared code shapes ------------------------ *)

\* the second-order section every IIR* function of the three files computes:
\* arrtemp[0] = input - a1*arrtemp[1] - a2*arrtemp[2]; output = b . arrtemp;
\* then arrtemp[2] = arrtemp[1]; arrtemp[1] = arrtemp[0].  (1-based here.)
Biquad(b, a, input, arrtemp) ==
  LET w0 == input - CoefMul(a[2], arrtemp[2]) - CoefMul(a[3], arrtemp[3])
      output == CoefMul(b[1], w0) + CoefMul(b[2], arrtemp[2])
                  + CoefMul(b[3], arrtemp[3])
  IN [out |-> output, win |-> <<w0, w0, arrtemp[2]>>]

RECURSIVE IntAccumulate(_, _, _)
\* int num = 0; for n: num += buf[n];  -- num is an int, so every partial sum
\* is converted back to int
IntAccumulate(buf, n, num) ==
  IF n > Len(buf) THEN num
  ELSE IntAccumulate(buf, n + 1, ToInt(ToReal(num) + buf[n]))

\* a smoother that starts to average one call early (i < W - 1)
SmoothingStep_early(W, NewData, st) ==
  IF st.i < W - 1
  THEN [out |-> NewData,
        st  |-> [i |-> st.i + 1, buf |-> [st.buf EXCEPT ![st.i + 1] = NewData]]]
  ELSE LET buf == Tail(st.buf) \o <<NewData>>
           num == IntAccumulate(buf, 1, 0)
       IN [out |-> FDiv(ToReal(num), W),
           st |-> [i |-> IF st.i < W THEN st.i + 1 ELSE st.i, buf |-> buf]]

\* the smoothers: static int i, static double buf[W]
SmoothingStep(W, NewData, st) ==
  IF st.i < W
  THEN [out |-> NewData,
        st  |-> [i |-> st.i + 1, buf |-> [st.buf EXCEPT ![st.i + 1] = NewData]]]
  ELSE LET buf == Tail(st.buf) \o <<NewData>>
           num == IntAccumulate(buf, 1, 0)
       IN [out |-> FDiv(ToReal(num), W), st |-> [i |-> st.i, buf |-> buf]]

\* a rate computed as (int)(60 / ppdistance) * 1000
RateOf_coarse(ppdistance) ==
  IF ppdistance = 0 THEN UndefinedInt ELSE {TruncDiv(60, ppdistance) * 1000}

\* *rate_output = (int)(60000.0 / ppdistance): the set of values it may store
RateOf(ppdistance) ==
  IF ppdistance = 0 THEN UndefinedInt ELSE {TruncDiv(60000, ppdistance)}

\* a crossing test that looks at the older sample only
RisingCross_older(older, newer, threshold) == older <= threshold

\* (arr[index - 2] <= peakThreshold) && (arr[index - 1] >= peakThreshold)
RisingCross(older, newer, threshold) == older <= threshold /\ newer >= threshold

\* (arr[index - 2] - peakThreshold >= 0) && (arr[index - 1] - peakThreshold <= 0)
FallingCross(older, newer, threshold) ==
  older - threshold >= 0 /\ newer - threshold <= 0

(* ------------------------------ state ---------------------------------- *)

VARIABLES
  ecg,          \* the statics of the ECG module (ECG.c lines 39-59, 174-175)
  resp,         \* the statics of RESP.c (lines 37-55, 123-124)
  spo2,         \* the statics of the SpO2 module (ECG.c lines 377-416, 507-508, 537-538, 858)
  gpio,         \* the pins: LEAD_OFF (PB0), ECG_ZERO (PB1), RED (PA5), IR (PA6)
  dac,          \* the value last handed to AdjustDAC
  TimeCounter,  \* the millisecond counter GetTimeCounter() returns
  disp,         \* what each display routine emitted last
  sch,          \* the dispatcher: the calls it still makes and their order
  twin,         \* the ECG statics of a second run that gets the same samples
                \* and timer ticks, whose lead never comes off and whose
                \* display routine is never called
  ev            \* what the last call did (for stating the properties)

vars == <<ecg, resp, spo2, gpio, dac, TimeCounter, disp, sch, twin, ev>>

\* a call that did nothing observable
NoEv ==
  [op |-> "none", sm |-> <<>>, wrap |-> FALSE, refresh |-> FALSE, win |-> <<>>,
   evald |-> FALSE, peak |-> FALSE, rate |-> 0, dt |-> 0,
   analysed |-> FALSE, rInt |-> 0, sorted |-> <<>>, batch |-> FALSE,
   pre |-> <<>>, wrote |-> {}, reads |-> {}]

\* one smoother call: the state it started from, its input and its output
SmCall(name, W, st, NewData, r) ==
  [name |-> name, W |-> W, pre |-> st, in |-> NewData, out |-> r.out,
   post |-> r.st]

(* ------------------------------- ECG ----------------------------------- *)

ECG_WindowsLen == 3

\* 300 in the source
HR_WAVE_LEN == 5

ECG_IIRNotch_b == <<2452, 3968, 2452>>
ECG_IIRNotch_a == <<10000, 3968, -5095>>
ECG_IIRLowpass_b == <<2747, 5495, 2747>>
ECG_IIRLowpass_a == <<10000, -736, 1725>>
ECG_IIRHighpass_b == <<9481, -18962, 9481>>
ECG_IIRHighpass_a == <<10000, -18935, 8989>>

ECG_IIRNotch(input, arrtemp) == Biquad(ECG_IIRNotch_b, ECG_IIRNotch_a, input, arrtemp)

ECG_IIRLowpass(input, arrtemp) ==
  Biquad(ECG_IIRLowpass_b, ECG_IIRLowpass_a, input, arrtemp)

ECG_IIRHighpass(input, arrtemp) ==
  Biquad(ECG_IIRHighpass_b, ECG_IIRHighpass_a, input, arrtemp)

ECG_SmoothingFilter(NewData, st) == SmoothingStep(ECG_WindowsLen, NewData, st)

\* peakMax = 0.0, peakMin = 4095.0, scan of data_window[1 .. windowSize-1]
ECG_Update_Threshold(data_window, windowSize) ==
  LET peakMax == ScanMax(data_window, 2, windowSize, ToReal(0))
      peakMin == ScanMin(data_window, 2, windowSize, ToReal(4095))
  IN peakMax - FDiv(peakMax - peakMin, 4)

ECG_calRate(ppdistance) == RateOf(ppdistance)

\* the values of the statics at program start
ECG_Start ==
  [IIRNotch_win |-> Zeros(3), IIRLowpass_win |-> Zeros(3),
   IIRHighpass_win |-> Zeros(3),
   sm |-> [i |-> 0, buf |-> Zeros(ECG_WindowsLen)],
   arr_ECG_Wave |-> Zeros(HR_WAVE_LEN), ECG_Wave_index |-> 0,
   peakThreshold |-> 0, lastPeak_index |-> 0, currentPeak_index |-> 0,
   heartRate |-> 0]

(* ---------------------------- the dispatcher --------------------------- *)
(* The caller of the entry points is outside these files.  It is modelled  *)
(* as a plan chosen at start: how often each entry point is still called   *)
(* (left) and in which order: "any", or "strict", the periodic schedule    *)
(* the source states (a timer tick before every sample; for SpO2 eight     *)
(* 1 ms LED steps before every 8 ms SPO2Task).                             *)

Acts ==
  {"TimerTick", "InitECG", "ECGTask", "OLED_ECG", "InitRESP", "RESPTask",
   "OLED_RESP", "InitSPO2", "SPO2_LED_Task", "SPO2Task", "OLED_SPO2",
   "calSpO2"}

\* the budget that allows the calls listed in s (pairs <<action, count>>)
Budget(s) ==
  [a \in Acts |->
     IF \E k \in DOMAIN s : s[k][1] = a
     THEN s[CHOOSE k \in DOMAIN s : s[k][1] = a][2]
     ELSE 0]

\* calls of a task under the periodic schedule, free input
MaxDeep == 10

\* calls of one entry point when the order is free
MaxAny == 3

\* the samples the ECG and RESP converters deliver in the model (12-bit codes)
ADCVals == {0, 100}

\* ReadECGADC() and ReadRESPADC(): s_arrADCData[0] and [1], which the DMA
\* fills; the values they may hold in this run
ReadECGADC == sch.adc

ReadRESPADC == sch.adc

\* the action the periodic schedule calls next
Due(a) ==
  CASE sch.chan = "ECG"  ->
         a = (IF sch.turn = -1 THEN "InitECG"
              ELSE IF sch.turn = 0 THEN "TimerTick" ELSE "ECGTask")
    [] sch.chan = "RESP" ->
         a = (IF sch.turn = -1 THEN "InitRESP"
              ELSE IF sch.turn = 0 THEN "TimerTick" ELSE "RESPTask")
    [] sch.chan = "SPO2" ->
         a = (IF sch.turn = -1 THEN "InitSPO2"
              ELSE IF sch.turn = 16 THEN "SPO2Task"
              ELSE IF sch.turn % 2 = 0 THEN "TimerTick" ELSE "SPO2_LED_Task")
    [] OTHER -> FALSE

Cycle == IF sch.chan = "SPO2" THEN 17 ELSE 2

\* the dispatcher may call a now
May(a) == sch.left[a] > 0 /\ (sch.order = "any" \/ Due(a))

\* the dispatcher after calling a
Called(a) ==
  [sch EXCEPT !.left[a] = @ - 1,
              !.turn = IF sch.order # "strict" THEN @
                       ELSE IF @ = -1 THEN 2 * sch.phase
                       ELSE (@ + 1) % Cycle,
              !.calls = IF a \in {"InitECG", "InitRESP", "InitSPO2"} THEN 0
                        ELSE IF a \in {"ECGTask", "RESPTask", "SPO2Task"} THEN @ + 1
                        ELSE @,
              !.fresh = IF a = "InitECG" THEN [@ EXCEPT !["ECGTask"] = {}]
                        ELSE IF a = "InitRESP" THEN [@ EXCEPT !["RESPTask"] = {}]
                        ELSE @]

\* the dispatcher after calling task a, which found the write index at index
\* and did (evald) or did not reach the peak test: evals counts the calls that
\* reached it since the call that found the index at 0; fresh[a] holds the
\* window slots (0-based) written since that call, or since the memset of the
\* window if that came later
Counted(a, index, evald) ==
  [Called(a) EXCEPT !.evals = (IF index = 0 THEN 0 ELSE @)
                                + (IF evald THEN 1 ELSE 0),
                    !.fresh[a] = (IF index = 0 THEN {} ELSE @) \cup {index}]

\* the 1 ms timer interrupt behind GetTimeCounter()
TimerTick ==
  /\ May("TimerTick")
  /\ TimeCounter' = TimeCounter + 1
  /\ sch' = Called("TimerTick")
  /\ ev' = [NoEv EXCEPT !.op = "TimerTick"]
  /\ UNCHANGED <<ecg, twin, resp, spo2, gpio, dac, disp>>

(* ---------------------------- ECG entry points ------------------------- *)

\* a reset that clears the window and leaves the write index where it is
ECG_Reset_keepindex(e) ==
  [e EXCEPT !.IIRNotch_win = Zeros(3), !.IIRLowpass_win = Zeros(3),
            !.IIRHighpass_win = Zeros(3),
            !.arr_ECG_Wave = Zeros(HR_WAVE_LEN),
            !.peakThreshold = 0,
            !.lastPeak_index = 0, !.currentPeak_index = 0,
            !.heartRate = 0]

\* the memsets and assignments of InitECG, on the statics e
ECG_Reset(e) ==
  [e EXCEPT !.IIRNotch_win = Zeros(3), !.IIRLowpass_win = Zeros(3),
            !.IIRHighpass_win = Zeros(3),
            !.arr_ECG_Wave = Zeros(HR_WAVE_LEN),
            !.ECG_Wave_index = 0, !.peakThreshold = 0,
            !.lastPeak_index = 0, !.currentPeak_index = 0,
            !.heartRate = 0]

\* InitECG: ConfigECGGPIO sets ECG_ZERO; the memsets and assignments
InitECG ==
  /\ May("InitECG")
  /\ ecg' = ECG_Reset(ecg)
  /\ twin' = ECG_Reset(twin)
  /\ gpio' = [gpio EXCEPT !.ECG_ZERO = 1]
  /\ sch' = Called("InitECG")
  /\ ev' = [NoEv EXCEPT !.op = "InitECG", !.pre = ecg]
  /\ UNCHANGED <<resp, spo2, dac, TimeCounter, disp>>

\* the body of ECGTask(inp) on the statics e at timer value now: what it
\* computes (wrap, evald, peak, dt, the smoother call sm), the statics it
\* leaves when no peak is found (filtered) and the rates calRate may store
ECG_Body(e, now, inp) ==
  LET f1 == ECG_IIRNotch(ToReal(inp), e.IIRNotch_win)
      f2 == ECG_IIRHighpass(f1.out, e.IIRHighpass_win)
      f3 == ECG_IIRLowpass(f2.out, e.IIRLowpass_win)
      f4 == ECG_SmoothingFilter(f3.out, e.sm)
      wave == [e.arr_ECG_Wave EXCEPT ![e.ECG_Wave_index + 1] = f4.out]
      wrap == e.ECG_Wave_index + 1 >= HR_WAVE_LEN
      idx == IF wrap THEN 0 ELSE e.ECG_Wave_index + 1
      thr == IF wrap THEN ECG_Update_Threshold(wave, HR_WAVE_LEN)
             ELSE e.peakThreshold
      evald == idx > 1 /\ idx < HR_WAVE_LEN - 1
      \* arr_ECG_Wave[idx - 2] and [idx - 1], 0-based, are wave[idx - 1] and wave[idx]
      peak == evald /\ RisingCross(wave[idx - 1], wave[idx], thr)
      dt == now - e.lastPeak_index
  IN [wrap |-> wrap, evald |-> evald, peak |-> peak, dt |-> dt, wave |-> wave,
      reads |-> IF evald THEN {idx - 2, idx - 1} ELSE {},
      sm |-> SmCall("ECG", ECG_WindowsLen, e.sm, f3.out, f4),
      filtered |-> [e EXCEPT !.IIRNotch_win = f1.win, !.IIRHighpass_win = f2.win,
                             !.IIRLowpass_win = f3.win, !.sm = f4.st,
                             !.arr_ECG_Wave = wave, !.ECG_Wave_index = idx,
                             !.peakThreshold = thr],
      rates |-> IF peak THEN ECG_calRate(dt) ELSE {e.heartRate}]

\* the statics ECGTask leaves, calRate having given rate where a peak was found
ECG_After(b, now, rate) ==
  IF b.peak
  THEN [b.filtered EXCEPT !.currentPeak_index = now, !.heartRate = rate,
                          !.lastPeak_index = now]
  ELSE b.filtered

\* ECGTask(inp); the second run makes the same call, and a conversion the C
\* standard leaves undefined gives it what it gives the first run
ECGTask(inp) ==
  LET b == ECG_Body(ecg, TimeCounter, inp)
      t == ECG_Body(twin, TimeCounter, inp)
  IN /\ May("ECGTask")
     /\ \E rate \in b.rates :
          /\ ecg' = ECG_After(b, TimeCounter, rate)
          /\ \E rate2 \in t.rates :
               /\ t.rates = b.rates => rate2 = rate
               /\ twin' = ECG_After(t, TimeCounter, rate2)
          /\ ev' = [NoEv EXCEPT !.op = "ECGTask", !.sm = <<b.sm>>,
                      !.wrap = b.wrap, !.refresh = b.wrap,
                      !.win = IF b.wrap THEN SubSeq(b.wave, 2, HR_WAVE_LEN) ELSE <<>>,
                      !.evald = b.evald, !.peak = b.peak, !.rate = rate,
                      !.dt = b.dt, !.pre = ecg,
                      !.wrote = {ecg.ECG_Wave_index}, !.reads = b.reads]
     /\ sch' = Counted("ECGTask", ecg.ECG_Wave_index, b.evald)
     /\ UNCHANGED <<resp, spo2, gpio, dac, TimeCounter, disp>>

\* a display routine that clears the stored rate when the lead is off
OLED_ECG_purge(lead) ==
  /\ May("OLED_ECG")
  /\ gpio' = [gpio EXCEPT !.LEAD_OFF = lead, !.ECG_ZERO = IF lead = 1 THEN 1 ELSE 0]
  /\ ecg' = IF lead = 1 THEN [ecg EXCEPT !.heartRate = 0] ELSE ecg
  /\ disp' = [disp EXCEPT !.ecg =
                IF lead = 1 THEN [lead |-> "Noob", err |-> TRUE, num |-> 0]
                ELSE IF ecg.heartRate >= 20 /\ ecg.heartRate <= 250
                     THEN [lead |-> "Good", err |-> FALSE, num |-> ecg.heartRate]
                     ELSE [lead |-> "Good", err |-> TRUE, num |-> 0]]
  /\ sch' = Called("OLED_ECG")
  /\ ev' = [NoEv EXCEPT !.op = "OLED_ECG", !.pre = ecg]
  /\ UNCHANGED <<twin, resp, spo2, dac, TimeCounter>>

\* a display routine that drives the RED pin where it should drive ECG_ZERO
OLED_ECG_pin(lead) ==
  /\ May("OLED_ECG")
  /\ gpio' = [gpio EXCEPT !.LEAD_OFF = lead, !.RED = IF lead = 1 THEN 1 ELSE 0]
  /\ disp' = [disp EXCEPT !.ecg =
                IF lead = 1 THEN [lead |-> "Noob", err |-> TRUE, num |-> 0]
                ELSE IF ecg.heartRate >= 20 /\ ecg.heartRate <= 250
                     THEN [lead |-> "Good", err |-> FALSE, num |-> ecg.heartRate]
                     ELSE [lead |-> "Good", err |-> TRUE, num |-> 0]]
  /\ sch' = Called("OLED_ECG")
  /\ ev' = [NoEv EXCEPT !.op = "OLED_ECG", !.pre = ecg]
  /\ UNCHANGED <<ecg, twin, resp, spo2, dac, TimeCounter>>

\* OLED_ECG: reads LEAD_OFF (an input pin, any level), drives ECG_ZERO, shows
\* the rate or Err
OLED_ECG(lead) ==
  /\ May("OLED_ECG")
  /\ gpio' = [gpio EXCEPT !.LEAD_OFF = lead, !.ECG_ZERO = IF lead = 1 THEN 1 ELSE 0]
  /\ disp' = [disp EXCEPT !.ecg =
                IF lead = 1 THEN [lead |-> "Noob", err |-> TRUE, num |-> 0]
                ELSE IF ecg.heartRate >= 20 /\ ecg.heartRate <= 250
                     THEN [lead |-> "Good", err |-> FALSE, num |-> ecg.heartRate]
                     ELSE [lead |-> "Good", err |-> TRUE, num |-> 0]]
  /\ sch' = Called("OLED_ECG")
  /\ ev' = [NoEv EXCEPT !.op = "OLED_ECG", !.pre = ecg]
  /\ UNCHANGED <<ecg, twin, resp, spo2, dac, TimeCounter>>

(* ------------------------------- RESP ---------------------------------- *)

\* 100 in the source
RESP_WindowsLen == 3

\* 1000 in the source
BR_WAVE_LEN == 5

RESP_IIRNotch_b == <<2452, 3968, 2452>>
RESP_IIRNotch_a == <<10000, 3968, -5095>>
RESP_IIRLowpass_b == <<461, 923, 461>>
RESP_IIRLowpass_a == <<10000, -13073, 4918>>

RESP_IIRNotch(input, arrtemp) ==
  Biquad(RESP_IIRNotch_b, RESP_IIRNotch_a, input, arrtemp)

RESP_IIRLowpass(input, arrtemp) ==
  Biquad(RESP_IIRLowpass_b, RESP_IIRLowpass_a, input, arrtemp)

RESP_SmoothingFilter(NewData, st) == SmoothingStep(RESP_WindowsLen, NewData, st)

\* as in ECG.c; it also stores s_peak2peak.  The result: [p2p, thr]
RESP_Update_Threshold(data_window, windowSize) ==
  LET peakMax == ScanMax(data_window, 2, windowSize, ToReal(0))
      peakMin == ScanMin(data_window, 2, windowSize, ToReal(4095))
  IN [p2p |-> peakMax - peakMin, thr |-> peakMax - FDiv(peakMax - peakMin, 4)]

RESP_calRate(ppdistance) == RateOf(ppdistance)

RESP_Start ==
  [IIRNotch_win |-> Zeros(3), IIRLowpass_win |-> Zeros(3),
   sm |-> [i |-> 0, buf |-> Zeros(RESP_WindowsLen)],
   arr_BR_Wave |-> Zeros(BR_WAVE_LEN), BR_Wave_index |-> 0,
   peakThreshold |-> 0, lastPeak_index |-> 0, currentPeak_index |-> 0,
   breathRate |-> 0, s_peak2peak |-> 0]

InitRESP ==
  /\ May("InitRESP")
  /\ resp' = [resp EXCEPT !.IIRNotch_win = Zeros(3), !.IIRLowpass_win = Zeros(3),
                          !.arr_BR_Wave = Zeros(BR_WAVE_LEN),
                          !.BR_Wave_index = 0, !.peakThreshold = 0,
                          !.lastPeak_index = 0, !.currentPeak_index = 0,
                          !.breathRate = 0, !.s_peak2peak = 0]
  /\ sch' = Called("InitRESP")
  /\ ev' = [NoEv EXCEPT !.op = "InitRESP", !.pre = resp]
  /\ UNCHANGED <<ecg, twin, spo2, gpio, dac, TimeCounter, disp>>

RESPTask(inp) ==
  LET f1 == RESP_IIRNotch(ToReal(inp), resp.IIRNotch_win)
      f2 == RESP_IIRLowpass(f1.out, resp.IIRLowpass_win)
      f3 == RESP_SmoothingFilter(f2.out, resp.sm)
      wave == [resp.arr_BR_Wave EXCEPT ![resp.BR_Wave_index + 1] = f3.out]
      wrap == resp.BR_Wave_index + 1 >= BR_WAVE_LEN
      idx == IF wrap THEN 0 ELSE resp.BR_Wave_index + 1
      upd == RESP_Update_Threshold(wave, BR_WAVE_LEN)
      thr == IF wrap THEN upd.thr ELSE resp.peakThreshold
      evald == idx > 1 /\ idx < BR_WAVE_LEN - 1
      peak == evald /\ RisingCross(wave[idx - 1], wave[idx], thr)
      dt == TimeCounter - resp.lastPeak_index
      filtered == [resp EXCEPT !.IIRNotch_win = f1.win, !.IIRLowpass_win = f2.win,
                               !.sm = f3.st, !.arr_BR_Wave = wave,
                               !.BR_Wave_index = idx, !.peakThreshold = thr,
                               !.s_peak2peak = IF wrap THEN upd.p2p ELSE @]
  IN /\ May("RESPTask")
     /\ \E rate \in (IF peak THEN RESP_calRate(dt) ELSE {resp.breathRate}) :
          /\ resp' = IF peak
                     THEN [filtered EXCEPT !.currentPeak_index = TimeCounter,
                                           !.breathRate = rate,
                                           !.lastPeak_index = TimeCounter]
                     ELSE filtered
          /\ ev' = [NoEv EXCEPT !.op = "RESPTask",
                      !.sm = <<SmCall("RESP", RESP_WindowsLen, resp.sm, f2.out, f3)>>,
                      !.wrap = wrap, !.refresh = wrap,
                      !.win = IF wrap THEN SubSeq(wave, 2, BR_WAVE_LEN) ELSE <<>>,
                      !.evald = evald, !.peak = peak, !.rate = rate, !.dt = dt,
                      !.pre = resp, !.wrote = {resp.BR_Wave_index},
                      !.reads = IF evald THEN {idx - 2, idx - 1} ELSE {}]
     /\ sch' = Counted("RESPTask", resp.BR_Wave_index, evald)
     /\ UNCHANGED <<ecg, twin, spo2, gpio, dac, TimeCounter, disp>>

\* a display routine whose lead test joins the two limits with "and"
OLED_RESP_and ==
  /\ May("OLED_RESP")
  /\ disp' = [disp EXCEPT !.resp =
                IF resp.s_peak2peak < ToReal(600) /\ resp.s_peak2peak > ToReal(3000)
                THEN [lead |-> "Noob", err |-> TRUE, num |-> 0]
                ELSE IF resp.breathRate >= 5 /\ resp.breathRate <= 100
                     THEN [lead |-> "Good", err |-> FALSE, num |-> resp.breathRate]
                     ELSE [lead |-> "Good", err |-> TRUE, num |-> 0]]
  /\ sch' = Called("OLED_RESP")
  /\ ev' = [NoEv EXCEPT !.op = "OLED_RESP", !.pre = resp]
  /\ UNCHANGED <<ecg, twin, resp, spo2, gpio, dac, TimeCounter>>

\* OLED_RESP: lead state from s_peak2peak, then the rate or Err
OLED_RESP ==
  /\ May("OLED_RESP")
  /\ disp' = [disp EXCEPT !.resp =
                IF resp.s_peak2peak < ToReal(600) \/ resp.s_peak2peak > ToReal(3000)
                THEN [lead |-> "Noob", err |-> TRUE, num |-> 0]
                ELSE IF resp.breathRate >= 5 /\ resp.breathRate <= 100
                     THEN [lead |-> "Good", err |-> FALSE, num |-> resp.breathRate]
                     ELSE [lead |-> "Good", err |-> TRUE, num |-> 0]]
  /\ sch' = Called("OLED_RESP")
  /\ ev' = [NoEv EXCEPT !.op = "OLED_RESP", !.pre = resp]
  /\ UNCHANGED <<ecg, twin, resp, spo2, gpio, dac, TimeCounter>>

(* ------------------------------- SpO2 ---------------------------------- *)

SMOOTH_LEN == 5

\* 300 in the source
SP_WAVE_LEN == 5

HR_AVG_N == 5

R_BUFSIZE == 5

RED_INTENSITY_MIN == 100

RED_INTENSITY_MAX == 500

RED_INTENSITY_STEP == 40

ADJUST_STABLE_DELAY == 1

SPO2_IIRLowpass_b == <<51, 103, 51>>
SPO2_IIRLowpass_a == <<10000, -17874, 8079>>
SPO2_IIRHighpass_b == <<9894, -19788, 9894>>
SPO2_IIRHighpass_a == <<10000, -19787, 9789>>

SPO2_IIRLowpass(input, arrtemp) ==
  Biquad(SPO2_IIRLowpass_b, SPO2_IIRLowpass_a, input, arrtemp)

SPO2_IIRHighpass(input, arrtemp) ==
  Biquad(SPO2_IIRHighpass_b, SPO2_IIRHighpass_a, input, arrtemp)

SmoothingFilter_RED(NewData, st) == SmoothingStep(SMOOTH_LEN, NewData, st)

SmoothingFilter_IR(NewData, st) == SmoothingStep(SMOOTH_LEN, NewData, st)

\* the three scans over i = 0 .. waveSize-1, each from max 0.0 and min 4095.0
Analyze_SPO2Wave(wave1, wave2, wave3, waveSize) ==
  LET wave1_max == ScanMax(wave1, 1, waveSize, ToReal(0))
      wave1_min == ScanMin(wave1, 1, waveSize, ToReal(4095))
      wave2_max == ScanMax(wave2, 1, waveSize, ToReal(0))
      wave2_min == ScanMin(wave2, 1, waveSize, ToReal(4095))
      wave3_max == ScanMax(wave3, 1, waveSize, ToReal(0))
      wave3_min == ScanMin(wave3, 1, waveSize, ToReal(4095))
  IN [ppRed |-> wave1_max - wave1_min, ppIR |-> wave2_max - wave2_min,
      thr |-> wave3_max - FDiv(wave3_max - wave3_min, 3)]

SPO2_calRate(ppdistance) == RateOf(ppdistance)

RECURSIVE BubbleInner(_, _, _)
\* the inner loop, j (1-based) up to last; temp is a uint16_t
BubbleInner(arr, j, last) ==
  IF j > last THEN arr
  ELSE BubbleInner(IF arr[j] > arr[j + 1]
                   THEN [arr EXCEPT ![j] = arr[j + 1], ![j + 1] = arr[j] % 65536]
                   ELSE arr,
                   j + 1, last)

RECURSIVE BubbleOuter(_, _, _)
BubbleOuter(arr, i, size) ==
  IF i >= size - 1 THEN arr
  ELSE BubbleOuter(BubbleInner(arr, 1, size - i - 1), i + 1, size)

bubbleSort(arr, size) == BubbleOuter(arr, 0, size)

\* redPeak / irPeak * 1000 as a double: finite, or an infinity, or a NaN
RatioOf(redPeak, irPeak) ==
  IF irPeak # 0 THEN [kind |-> "finite", v |-> TruncDiv(redPeak * 1000 * Q, irPeak)]
  ELSE IF redPeak # 0 THEN [kind |-> "inf", v |-> 0]
  ELSE [kind |-> "nan", v |-> 0]

\* the int that rValue_buf receives from *rValue
RatioInt(r) == IF r.kind = "finite" THEN {ToInt(r.v)} ELSE UndefinedInt

\* a median that takes the last element of the sorted copy
MedianOf_top(tempBuf) == tempBuf[R_BUFSIZE]

\* the median of the sorted copy (the even branch reads [size/2] and [size/2+1])
MedianOf(tempBuf) ==
  IF R_BUFSIZE % 2 = 0
  THEN TruncDiv(tempBuf[R_BUFSIZE \div 2 + 1] + tempBuf[R_BUFSIZE \div 2 + 2], 2)
  ELSE tempBuf[R_BUFSIZE \div 2 + 1]

\* the chain with the default the source leaves in a comment (*spo2 = 85.0)
SpO2Table_default(rInt, spo2Old) ==
  IF rInt <= 450 THEN ToReal(99)
  ELSE IF rInt >= 451 /\ rInt <= 470 THEN ToReal(98)
  ELSE IF rInt >= 471 /\ rInt <= 510 THEN ToReal(97)
  ELSE IF rInt >= 511 /\ rInt <= 540 THEN ToReal(96)
  ELSE IF rInt >= 541 /\ rInt <= 580 THEN ToReal(95)
  ELSE IF rInt >= 581 /\ rInt <= 600 THEN ToReal(94)
  ELSE IF rInt >= 601 /\ rInt <= 620 THEN ToReal(93)
  ELSE IF rInt >= 621 /\ rInt <= 640 THEN ToReal(92)
  ELSE IF rInt >= 641 /\ rInt <= 680 THEN ToReal(91)
  ELSE IF rInt >= 681 /\ rInt <= 720 THEN ToReal(90)
  ELSE IF rInt >= 721 /\ rInt <= 800 THEN ToReal(89)
  ELSE IF rInt >= 801 /\ rInt <= 940 THEN ToReal(88)
  ELSE IF rInt >= 941 /\ rInt <= 980 THEN ToReal(87)
  ELSE IF rInt >= 981 /\ rInt <= 1020 THEN ToReal(86)
  ELSE IF rInt >= 1021 /\ rInt <= 1060 THEN ToReal(85)
  ELSE IF rInt >= 1061 /\ rInt <= 1080 THEN ToReal(84)
  ELSE IF rInt >= 1081 /\ rInt <= 1100 THEN ToReal(83)
  ELSE IF rInt >= 1101 /\ rInt <= 1120 THEN ToReal(82)
  ELSE IF rInt >= 1121 /\ rInt <= 1150 THEN ToReal(81)
  ELSE IF rInt >= 1151 /\ rInt <= 1170 THEN ToReal(80)
  ELSE IF rInt >= 1171 /\ rInt <= 1200 THEN ToReal(79)
  ELSE ToReal(85)

\* the chain with the 98 row starting one late (rInt >= 452)
SpO2Table_gap(rInt, spo2Old) ==
  IF rInt <= 450 THEN ToReal(99)
  ELSE IF rInt >= 452 /\ rInt <= 470 THEN ToReal(98)
  ELSE IF rInt >= 471 /\ rInt <= 510 THEN ToReal(97)
  ELSE IF rInt >= 511 /\ rInt <= 540 THEN ToReal(96)
  ELSE IF rInt >= 541 /\ rInt <= 580 THEN ToReal(95)
  ELSE IF rInt >= 581 /\ rInt <= 600 THEN ToReal(94)
  ELSE IF rInt >= 601 /\ rInt <= 620 THEN ToReal(93)
  ELSE IF rInt >= 621 /\ rInt <= 640 THEN ToReal(92)
  ELSE IF rInt >= 641 /\ rInt <= 680 THEN ToReal(91)
  ELSE IF rInt >= 681 /\ rInt <= 720 THEN ToReal(90)
  ELSE IF rInt >= 721 /\ rInt <= 800 THEN ToReal(89)
  ELSE IF rInt >= 801 /\ rInt <= 940 THEN ToReal(88)
  ELSE IF rInt >= 941 /\ rInt <= 980 THEN ToReal(87)
  ELSE IF rInt >= 981 /\ rInt <= 1020 THEN ToReal(86)
  ELSE IF rInt >= 1021 /\ rInt <= 1060 THEN ToReal(85)
  ELSE IF rInt >= 1061 /\ rInt <= 1080 THEN ToReal(84)
  ELSE IF rInt >= 1081 /\ rInt <= 1100 THEN ToReal(83)
  ELSE IF rInt >= 1101 /\ rInt <= 1120 THEN ToReal(82)
  ELSE IF rInt >= 1121 /\ rInt <= 1150 THEN ToReal(81)
  ELSE IF rInt >= 1151 /\ rInt <= 1170 THEN ToReal(80)
  ELSE IF rInt >= 1171 /\ rInt <= 1200 THEN ToReal(79)
  ELSE spo2Old

\* the if / else-if chain on rInt; the last else leaves *spo2 as it was
SpO2Table(rInt, spo2Old) ==
  IF rInt <= 450 THEN ToReal(99)
  ELSE IF rInt >= 451 /\ rInt <= 470 THEN ToReal(98)
  ELSE IF rInt >= 471 /\ rInt <= 510 THEN ToReal(97)
  ELSE IF rInt >= 511 /\ rInt <= 540 THEN ToReal(96)
  ELSE IF rInt >= 541 /\ rInt <= 580 THEN ToReal(95)
  ELSE IF rInt >= 581 /\ rInt <= 600 THEN ToReal(94)
  ELSE IF rInt >= 601 /\ rInt <= 620 THEN ToReal(93)
  ELSE IF rInt >= 621 /\ rInt <= 640 THEN ToReal(92)
  ELSE IF rInt >= 641 /\ rInt <= 680 THEN ToReal(91)
  ELSE IF rInt >= 681 /\ rInt <= 720 THEN ToReal(90)
  ELSE IF rInt >= 721 /\ rInt <= 800 THEN ToReal(89)
  ELSE IF rInt >= 801 /\ rInt <= 940 THEN ToReal(88)
  ELSE IF rInt >= 941 /\ rInt <= 980 THEN ToReal(87)
  ELSE IF rInt >= 981 /\ rInt <= 1020 THEN ToReal(86)
  ELSE IF rInt >= 1021 /\ rInt <= 1060 THEN ToReal(85)
  ELSE IF rInt >= 1061 /\ rInt <= 1080 THEN ToReal(84)
  ELSE IF rInt >= 1081 /\ rInt <= 1100 THEN ToReal(83)
  ELSE IF rInt >= 1101 /\ rInt <= 1120 THEN ToReal(82)
  ELSE IF rInt >= 1121 /\ rInt <= 1150 THEN ToReal(81)
  ELSE IF rInt >= 1151 /\ rInt <= 1170 THEN ToReal(80)
  ELSE IF rInt >= 1171 /\ rInt <= 1200 THEN ToReal(79)
  ELSE spo2Old

\* a range check with the upper limit only
ClampSpO2_upper(v) ==
  IF v > ToReal(100) THEN ToReal(100)
  ELSE v

\* the final range check of calSpO2
ClampSpO2(v) ==
  IF v > ToReal(100) THEN ToReal(100)
  ELSE IF v < ToReal(70) THEN ToReal(70)
  ELSE v

\* calSpO2 once the int stored for *rValue is known to be rNew
calSpO2With(rNew, buf, spo2Old) ==
  LET shifted == Tail(buf) \o <<rNew>>
      tempBuf == bubbleSort(shifted, R_BUFSIZE)
      rInt == MedianOf(tempBuf)
  IN [rValue_buf |-> shifted, tempBuf |-> tempBuf, rInt |-> rInt,
      spo2 |-> ClampSpO2(SpO2Table(rInt, spo2Old))]

\* calSpO2(redPeak, irPeak, &value_R, &value_SPO2): every result it may have
calSpO2(redPeak, irPeak, buf, spo2Old) ==
  LET rValue == RatioOf(redPeak, irPeak)
  IN {[value_R |-> rValue, cal |-> calSpO2With(rNew, buf, spo2Old)]
        : rNew \in RatioInt(rValue)}

\* the dimming that steps down without asking whether s_DACdata is above the
\* minimum
AutoGain_noguard(ppRed, dacdata) ==
  IF ppRed < ToReal(20) /\ dacdata < RED_INTENSITY_MAX
  THEN LET d == (dacdata + RED_INTENSITY_STEP) % 65536
       IN [s_DACdata |-> IF d > RED_INTENSITY_MAX THEN RED_INTENSITY_MAX ELSE d,
           adjusted |-> TRUE]
  ELSE IF ppRed > ToReal(80)
  THEN LET d == (dacdata - RED_INTENSITY_STEP) % 65536
       IN [s_DACdata |-> IF d < RED_INTENSITY_MIN THEN RED_INTENSITY_MIN ELSE d,
           adjusted |-> TRUE]
  ELSE [s_DACdata |-> dacdata, adjusted |-> FALSE]

\* the dimming that raises only while a whole step fits below the maximum
AutoGain_halt(ppRed, dacdata) ==
  IF ppRed < ToReal(20) /\ dacdata < RED_INTENSITY_MAX - RED_INTENSITY_STEP
  THEN LET d == (dacdata + RED_INTENSITY_STEP) % 65536
       IN [s_DACdata |-> IF d > RED_INTENSITY_MAX THEN RED_INTENSITY_MAX ELSE d,
           adjusted |-> TRUE]
  ELSE IF ppRed > ToReal(80) /\ dacdata > RED_INTENSITY_MIN
  THEN LET d == (dacdata - RED_INTENSITY_STEP) % 65536
       IN [s_DACdata |-> IF d < RED_INTENSITY_MIN THEN RED_INTENSITY_MIN ELSE d,
           adjusted |-> TRUE]
  ELSE [s_DACdata |-> dacdata, adjusted |-> FALSE]

\* the dimming without the lower limit check after the step down
AutoGain_nofloor(ppRed, dacdata) ==
  IF ppRed < ToReal(20) /\ dacdata < RED_INTENSITY_MAX
  THEN LET d == (dacdata + RED_INTENSITY_STEP) % 65536
       IN [s_DACdata |-> IF d > RED_INTENSITY_MAX THEN RED_INTENSITY_MAX ELSE d,
           adjusted |-> TRUE]
  ELSE IF ppRed > ToReal(80) /\ dacdata > RED_INTENSITY_MIN
  THEN [s_DACdata |-> (dacdata - RED_INTENSITY_STEP) % 65536, adjusted |-> TRUE]
  ELSE [s_DACdata |-> dacdata, adjusted |-> FALSE]

\* the dimming without the limit checks after the step
AutoGain_unclamped(ppRed, dacdata) ==
  IF ppRed < ToReal(20) /\ dacdata < RED_INTENSITY_MAX
  THEN [s_DACdata |-> (dacdata + RED_INTENSITY_STEP) % 65536, adjusted |-> TRUE]
  ELSE IF ppRed > ToReal(80) /\ dacdata > RED_INTENSITY_MIN
  THEN [s_DACdata |-> (dacdata - RED_INTENSITY_STEP) % 65536, adjusted |-> TRUE]
  ELSE [s_DACdata |-> dacdata, adjusted |-> FALSE]

\* the automatic dimming of SPO2Task; s_DACdata is a u16
AutoGain(ppRed, dacdata) ==
  IF ppRed < ToReal(20) /\ dacdata < RED_INTENSITY_MAX
  THEN LET d == (dacdata + RED_INTENSITY_STEP) % 65536
       IN [s_DACdata |-> IF d > RED_INTENSITY_MAX THEN RED_INTENSITY_MAX ELSE d,
           adjusted |-> TRUE]
  ELSE IF ppRed > ToReal(80) /\ dacdata > RED_INTENSITY_MIN
  THEN LET d == (dacdata - RED_INTENSITY_STEP) % 65536
       IN [s_DACdata |-> IF d < RED_INTENSITY_MIN THEN RED_INTENSITY_MIN ELSE d,
           adjusted |-> TRUE]
  ELSE [s_DACdata |-> dacdata, adjusted |-> FALSE]

RECURSIVE IntSum(_, _, _)
\* hr_sum += hr_buf[i] over i; ok is FALSE once a sum leaves the range of an int
IntSum(buf, n, acc) ==
  IF ~acc.ok \/ n > Len(buf) THEN acc
  ELSE LET x == buf[n]
           over == \/ (x > 0 /\ acc.v > 2147483647 - x)
                   \/ (x < 0 /\ acc.v < (-2147483647 - 1) - x)
       IN IntSum(buf, n + 1, IF over THEN [ok |-> FALSE, v |-> 0]
                             ELSE [ok |-> TRUE, v |-> acc.v + x])

\* the if (hr_cnt <= 4) ... else ... of SPO2Task for one detected peak:
\* every [hr_buf, hr_cnt, heartRate, batch] it may leave
HrBatch(hr_buf, hr_cnt, heartRate, cur_hr) ==
  IF hr_cnt <= 4
  THEN {[hr_buf |-> [hr_buf EXCEPT ![hr_cnt + 1] = cur_hr], hr_cnt |-> hr_cnt + 1,
         heartRate |-> heartRate, batch |-> FALSE]}
  ELSE LET hr_sum == IntSum(hr_buf, 1, [ok |-> TRUE, v |-> 0])
       IN {[hr_buf |-> hr_buf, hr_cnt |-> 0, heartRate |-> h, batch |-> TRUE]
             : h \in (IF hr_sum.ok THEN {TruncDiv(hr_sum.v, 5)} ELSE UndefinedInt)}

SPO2_Start ==
  [SPO2_Wave_data_RED |-> 0, SPO2_Wave_data_IR |-> 0,
   IIRLowpass_win_RED |-> Zeros(3), IIRLowpass_win_IR |-> Zeros(3),
   IIRHighpass_win_RED |-> Zeros(3), IIRHighpass_win_IR |-> Zeros(3),
   sm_RED |-> [i |-> 0, buf |-> Zeros(SMOOTH_LEN)],
   sm_IR |-> [i |-> 0, buf |-> Zeros(SMOOTH_LEN)],
   arr_SPO2_Wave_Rate |-> Zeros(SP_WAVE_LEN), SPO2_Wave_index |-> 0,
   peakThreshold |-> 0, lastPeak_index |-> 0, currentPeak_index |-> 0,
   heartRate |-> 0, hr_buf |-> Zeros(HR_AVG_N), hr_cnt |-> 0,
   arr_SPO2_Wave_RED |-> Zeros(SP_WAVE_LEN), arr_SPO2_Wave_IR |-> Zeros(SP_WAVE_LEN),
   peak2peak_RED |-> 0, peak2peak_IR |-> 0,
   value_R |-> [kind |-> "finite", v |-> 0], value_SPO2 |-> 0,
   rValue_buf |-> Zeros(R_BUFSIZE), s_DACdata |-> 0, adjust_wait_cnt |-> 0,
   state |-> 0]

\* InitSPO2: ConfigCSGPIO lights RED and puts IR out; two memsets; s_DACdata
InitSPO2 ==
  /\ May("InitSPO2")
  /\ gpio' = [gpio EXCEPT !.RED = 1, !.IR = 0]
  /\ spo2' = [spo2 EXCEPT !.IIRLowpass_win_RED = Zeros(3),
                          !.IIRLowpass_win_IR = Zeros(3),
                          !.s_DACdata = 240]
  /\ sch' = [Called("InitSPO2") EXCEPT !.lit = IF gpio' # gpio THEN 0 ELSE @]
  /\ ev' = [NoEv EXCEPT !.op = "InitSPO2", !.pre = spo2]
  /\ UNCHANGED <<ecg, twin, resp, dac, TimeCounter, disp>>

\* the photodetector code of a scripted run: a pulse over the first half of
\* every window, as strong as the script gives it for the LED that is lit
ScriptLevel ==
  IF (sch.k % SP_WAVE_LEN) >= SP_WAVE_LEN \div 2 THEN 0
  ELSE IF gpio.RED = 1 THEN sch.script[1]
  ELSE IF gpio.IR = 1 THEN sch.script[2]
  ELSE 0

\* ReadSPO2ADC(): s_arrADCData[2], which the DMA fills; the values it may hold
ReadSPO2ADC == IF sch.script = <<>> THEN sch.adc ELSE {ScriptLevel}

\* the dispatcher after an LED step that ended kEnd sample pairs and latched
\* red RED samples and ir IR samples: latched counts the samples latched since
\* the last SPO2Task call, and lit the LED steps made since the two LED pins
\* last changed
Latched(kEnd, red, ir) ==
  [Called("SPO2_LED_Task") EXCEPT !.k = @ + kEnd,
                                  !.latched = <<@[1] + red, @[2] + ir>>,
                                  !.lit = IF gpio' # gpio THEN 0 ELSE @ + 1]

\* the LED step with the two latches exchanged (IR at phase 2, RED at phase 6)
SPO2_LED_Task_swapped(adc) ==
  LET state == (spo2.state + 1) % 8
  IN /\ May("SPO2_LED_Task")
     /\ spo2' = [spo2 EXCEPT !.state = state,
                   !.SPO2_Wave_data_RED = IF state = 6 THEN adc ELSE @,
                   !.SPO2_Wave_data_IR = IF state = 2 THEN adc ELSE @]
     /\ gpio' = CASE state = 0 -> [gpio EXCEPT !.RED = 1, !.IR = 0]
                  [] state = 2 -> [gpio EXCEPT !.RED = 0, !.IR = 0]
                  [] state = 4 -> [gpio EXCEPT !.RED = 0, !.IR = 1]
                  [] state = 6 -> [gpio EXCEPT !.RED = 0, !.IR = 0]
                  [] OTHER -> gpio
     /\ sch' = Latched(IF state = 6 THEN 1 ELSE 0, IF state = 2 THEN 1 ELSE 0,
                     IF state = 6 THEN 1 ELSE 0)
     /\ ev' = [NoEv EXCEPT !.op = "SPO2_LED_Task", !.pre = spo2]
     /\ UNCHANGED <<ecg, twin, resp, dac, TimeCounter, disp>>

\* the LED step with the phase counter taken modulo 4
SPO2_LED_Task_mod4(adc) ==
  LET state == (spo2.state + 1) % 4
  IN /\ May("SPO2_LED_Task")
     /\ spo2' = [spo2 EXCEPT !.state = state,
                   !.SPO2_Wave_data_RED = IF state = 2 THEN adc ELSE @,
                   !.SPO2_Wave_data_IR = IF state = 6 THEN adc ELSE @]
     /\ gpio' = CASE state = 0 -> [gpio EXCEPT !.RED = 1, !.IR = 0]
                  [] state = 2 -> [gpio EXCEPT !.RED = 0, !.IR = 0]
                  [] state = 4 -> [gpio EXCEPT !.RED = 0, !.IR = 1]
                  [] state = 6 -> [gpio EXCEPT !.RED = 0, !.IR = 0]
                  [] OTHER -> gpio
     /\ sch' = Latched(IF state = 2 THEN 1 ELSE 0, IF state = 2 THEN 1 ELSE 0,
                     IF state = 6 THEN 1 ELSE 0)
     /\ ev' = [NoEv EXCEPT !.op = "SPO2_LED_Task", !.pre = spo2]
     /\ UNCHANGED <<ecg, twin, resp, dac, TimeCounter, disp>>

\* SPO2_LED_Task, with adc the value ReadSPO2ADC() returns
SPO2_LED_Task(adc) ==
  LET state == (spo2.state + 1) % 8
  IN /\ May("SPO2_LED_Task")
     /\ spo2' = [spo2 EXCEPT !.state = state,
                   !.SPO2_Wave_data_RED = IF state = 2 THEN adc ELSE @,
                   !.SPO2_Wave_data_IR = IF state = 6 THEN adc ELSE @]
     /\ gpio' = CASE state = 0 -> [gpio EXCEPT !.RED = 1, !.IR = 0]
                  [] state = 2 -> [gpio EXCEPT !.RED = 0, !.IR = 0]
                  [] state = 4 -> [gpio EXCEPT !.RED = 0, !.IR = 1]
                  [] state = 6 -> [gpio EXCEPT !.RED = 0, !.IR = 0]
                  [] OTHER -> gpio
     /\ sch' = Latched(IF state = 6 THEN 1 ELSE 0, IF state = 2 THEN 1 ELSE 0,
                     IF state = 6 THEN 1 ELSE 0)
     /\ ev' = [NoEv EXCEPT !.op = "SPO2_LED_Task", !.pre = spo2]
     /\ UNCHANGED <<ecg, twin, resp, dac, TimeCounter, disp>>

\* a cool-down test with the comparison turned round (adjust_wait_cnt < 0)
CoolingDown_off(wrap, adjust_wait_cnt) == wrap /\ adjust_wait_cnt < 0

\* a cool-down test that never fires for a delay of one (adjust_wait_cnt > 1)
CoolingDown_late(wrap, adjust_wait_cnt) == wrap /\ adjust_wait_cnt > 1

\* if (SPO2_Wave_index >= SP_WAVE_LEN) { ... if (adjust_wait_cnt > 0) {
\* adjust_wait_cnt--; return; } : the wrap that only waits
CoolingDown(wrap, adjust_wait_cnt) == wrap /\ adjust_wait_cnt > 0

\* SPO2Task
SPO2Task ==
  LET h0 == SPO2_IIRHighpass(ToReal(spo2.SPO2_Wave_data_RED), spo2.IIRHighpass_win_RED)
      h1 == SPO2_IIRHighpass(ToReal(spo2.SPO2_Wave_data_IR), spo2.IIRHighpass_win_IR)
      l0 == SPO2_IIRLowpass(h0.out, spo2.IIRLowpass_win_RED)
      l1 == SPO2_IIRLowpass(h1.out, spo2.IIRLowpass_win_IR)
      s0 == SmoothingFilter_RED(l0.out, spo2.sm_RED)
      s1 == SmoothingFilter_IR(l1.out, spo2.sm_IR)
      at == spo2.SPO2_Wave_index + 1
      waveRED == [spo2.arr_SPO2_Wave_RED EXCEPT ![at] = s0.out]
      waveIR == [spo2.arr_SPO2_Wave_IR EXCEPT ![at] = s1.out]
      waveRate == [spo2.arr_SPO2_Wave_Rate EXCEPT ![at] = s1.out]
      wrap == at >= SP_WAVE_LEN
      idx == IF wrap THEN 0 ELSE at
      waiting == CoolingDown(wrap, spo2.adjust_wait_cnt)
      analysed == wrap /\ ~waiting
      written == [spo2 EXCEPT !.IIRHighpass_win_RED = h0.win,
                              !.IIRHighpass_win_IR = h1.win,
                              !.IIRLowpass_win_RED = l0.win,
                              !.IIRLowpass_win_IR = l1.win,
                              !.sm_RED = s0.st, !.sm_IR = s1.st,
                              !.arr_SPO2_Wave_RED = waveRED,
                              !.arr_SPO2_Wave_IR = waveIR,
                              !.arr_SPO2_Wave_Rate = waveRate,
                              !.SPO2_Wave_index = idx]
      an == Analyze_SPO2Wave(waveRED, waveIR, waveRate, SP_WAVE_LEN)
      gain == AutoGain(an.ppRed, spo2.s_DACdata)
      thr == IF analysed THEN an.thr ELSE spo2.peakThreshold
      evald == ~waiting /\ idx > 1 /\ idx < SP_WAVE_LEN - 1
      peak == evald /\ FallingCross(waveRate[idx - 1], waveRate[idx], thr)
      dt == TimeCounter - spo2.lastPeak_index
      base == [NoEv EXCEPT !.op = "SPO2Task", !.pre = spo2, !.wrap = wrap,
                 !.wrote = {spo2.SPO2_Wave_index},
                 !.reads = IF evald THEN {idx - 2, idx - 1} ELSE {},
                 !.sm = <<SmCall("RED", SMOOTH_LEN, spo2.sm_RED, l0.out, s0),
                          SmCall("IR", SMOOTH_LEN, spo2.sm_IR, l1.out, s1)>>]
  IN /\ May("SPO2Task")
     /\ sch' = [Counted("SPO2Task", spo2.SPO2_Wave_index, evald)
                  EXCEPT !.consumed = sch.latched, !.latched = <<0, 0>>,
                         !.analyses = IF analysed THEN @ + 1 ELSE @]
     /\ UNCHANGED <<ecg, twin, resp, gpio, TimeCounter, disp>>
     /\ \/ /\ waiting
           /\ spo2' = [written EXCEPT !.adjust_wait_cnt = @ - 1]
           /\ ev' = base
           /\ dac' = dac
        \/ /\ analysed
           /\ \E c \in calSpO2(an.ppRed, an.ppIR, spo2.rValue_buf, spo2.value_SPO2) :
                /\ spo2' = [written EXCEPT !.peak2peak_RED = an.ppRed,
                              !.peak2peak_IR = an.ppIR, !.peakThreshold = an.thr,
                              !.value_R = c.value_R, !.value_SPO2 = c.cal.spo2,
                              !.rValue_buf = c.cal.rValue_buf,
                              !.s_DACdata = gain.s_DACdata,
                              !.adjust_wait_cnt =
                                 IF gain.adjusted THEN ADJUST_STABLE_DELAY ELSE @]
                /\ ev' = [base EXCEPT !.analysed = TRUE, !.refresh = TRUE,
                            !.win = waveRate, !.rInt = c.cal.rInt,
                            !.sorted = c.cal.tempBuf]
           /\ dac' = IF gain.adjusted THEN gain.s_DACdata ELSE dac
        \/ /\ ~wrap
           /\ dac' = dac
           /\ IF peak
              THEN \E cur_hr \in SPO2_calRate(dt) :
                     \E b \in HrBatch(spo2.hr_buf, spo2.hr_cnt, spo2.heartRate, cur_hr) :
                       /\ spo2' = [written EXCEPT !.currentPeak_index = TimeCounter,
                                     !.lastPeak_index = TimeCounter,
                                     !.hr_buf = b.hr_buf, !.hr_cnt = b.hr_cnt,
                                     !.heartRate = b.heartRate]
                       /\ ev' = [base EXCEPT !.evald = TRUE, !.peak = TRUE,
                                   !.rate = cur_hr, !.dt = dt, !.batch = b.batch]
              ELSE /\ spo2' = written
                   /\ ev' = [base EXCEPT !.evald = evald]

\* OLED_SPO2 prints (int)heartRate and (int)value_SPO2
OLED_SPO2 ==
  /\ May("OLED_SPO2")
  /\ disp' = [disp EXCEPT !.spo2 = [hr |-> spo2.heartRate,
                                    spo2 |-> ToInt(spo2.value_SPO2)]]
  /\ sch' = Called("OLED_SPO2")
  /\ ev' = [NoEv EXCEPT !.op = "OLED_SPO2", !.pre = spo2]
  /\ UNCHANGED <<ecg, twin, resp, spo2, gpio, dac, TimeCounter>>

(* --------------------------- the whole program ------------------------- *)

\* window passes of a scripted SpO2 run
MaxWraps == 16

\* window passes of the scripted run whose IR channel is dead
MaxPulseWraps == 6

WrapsOf(sc) == IF sc[2] = 0 THEN MaxPulseWraps ELSE MaxWraps

\* the pulse strengths <<RED, IR>> of the scripted SpO2 runs (ADC codes)
Scripts ==
  {<<20, 4000>>, <<4000, 3000>>, <<4000, 60>>, <<20, 0>>, <<3000, 4000>>}

\* window passes of the runs that call SPO2Task at another phase of the LEDs
PhaseWraps == 2

\* the milliseconds the timer has counted when a late-starting run begins
Warm == 700

\* the samples of a run whose breathing signal swings over the converter range
RespSwing == {0, 4000}

Plan(chan, order, turn, script, budget) ==
  [chan |-> chan, order |-> order, turn |-> turn, script |-> script, k |-> 0,
   calls |-> 0, evals |-> 0, t0 |-> 0, adc |-> ADCVals, phase |-> 0,
   latched |-> <<0, 0>>, consumed |-> <<0, 0>>, analyses |-> 0, lit |-> 0,
   fresh |-> [a \in {"ECGTask", "RESPTask", "SPO2Task"} |-> {}],
   left |-> Budget(budget)]

Plans ==
  {Plan("ECG", "strict", -1, <<>>,
        <<<<"InitECG", 1>>, <<"TimerTick", MaxDeep>>, <<"ECGTask", MaxDeep>>>>),
   Plan("RESP", "strict", -1, <<>>,
        <<<<"InitRESP", 1>>, <<"TimerTick", MaxDeep>>, <<"RESPTask", MaxDeep>>>>),
   Plan("ECG", "any", 0, <<>>,
        <<<<"InitECG", 1>>, <<"TimerTick", 1>>, <<"ECGTask", MaxAny>>,
          <<"OLED_ECG", 1>>>>),
   Plan("RESP", "any", 0, <<>>,
        <<<<"InitRESP", 1>>, <<"TimerTick", 1>>, <<"RESPTask", MaxAny>>,
          <<"OLED_RESP", 1>>>>),
   Plan("SPO2", "any", 0, <<>>,
        <<<<"InitSPO2", 1>>, <<"TimerTick", 1>>, <<"SPO2_LED_Task", MaxAny>>,
          <<"SPO2Task", MaxAny>>, <<"OLED_SPO2", 1>>>>),
   Plan("SPO2", "any", 0, <<>>,
        <<<<"InitSPO2", 1>>, <<"SPO2Task", SP_WAVE_LEN>>>>),
   Plan("SPO2", "any", 0, <<>>,
        <<<<"InitSPO2", 1>>, <<"SPO2_LED_Task", 8>>>>),
   [Plan("ECG", "any", 0, <<>>,
         <<<<"InitECG", 1>>, <<"TimerTick", 1>>, <<"ECGTask", MaxAny>>,
           <<"OLED_ECG", 1>>>>) EXCEPT !.t0 = Warm],
   [Plan("RESP", "any", 0, <<>>,
         <<<<"TimerTick", 1>>, <<"RESPTask", BR_WAVE_LEN>>, <<"OLED_RESP", 1>>>>)
      EXCEPT !.t0 = Warm, !.adc = RespSwing]}
  \cup
  {Plan("SPO2", "strict", -1, sc,
        <<<<"InitSPO2", 1>>, <<"TimerTick", 8 * WrapsOf(sc) * SP_WAVE_LEN>>,
          <<"SPO2_LED_Task", 8 * WrapsOf(sc) * SP_WAVE_LEN>>,
          <<"SPO2Task", WrapsOf(sc) * SP_WAVE_LEN>>>>) : sc \in Scripts}
  \cup
  {[Plan("SPO2", "strict", -1, <<4000, 3000>>,
         <<<<"InitSPO2", 1>>, <<"TimerTick", 8 * PhaseWraps * SP_WAVE_LEN>>,
           <<"SPO2_LED_Task", 8 * PhaseWraps * SP_WAVE_LEN>>,
           <<"SPO2Task", PhaseWraps * SP_WAVE_LEN>>>>) EXCEPT !.phase = p]
     : p \in 1..7}

\* the three channels called in any order, every sample of the converters 100
AllPlan ==
  [Plan("ALL", "any", 0, <<>>,
        <<<<"TimerTick", 1>>,
          <<"InitECG", 1>>, <<"ECGTask", 1>>, <<"OLED_ECG", 1>>,
          <<"InitRESP", 1>>, <<"RESPTask", 1>>, <<"OLED_RESP", 1>>,
          <<"InitSPO2", 1>>, <<"SPO2_LED_Task", 2>>, <<"SPO2Task", 1>>,
          <<"OLED_SPO2", 1>>>>) EXCEPT !.adc = {100}]

\* power-on, with the dispatcher set to one of the runs in plans
Start(plans) ==
  /\ ecg = ECG_Start
  /\ twin = ECG_Start
  /\ resp = RESP_Start
  /\ spo2 = SPO2_Start
  /\ gpio = [LEAD_OFF |-> 0, ECG_ZERO |-> 0, RED |-> 0, IR |-> 0]
  /\ dac = 0
  /\ sch \in plans
  /\ TimeCounter = sch.t0
  /\ disp = [ecg |-> [lead |-> "", err |-> FALSE, num |-> 0],
             resp |-> [lead |-> "", err |-> FALSE, num |-> 0],
             spo2 |-> [hr |-> 0, spo2 |-> 0]]
  /\ ev = NoEv

Init == Start(Plans)

Next ==
  \/ TimerTick
  \/ InitECG
  \/ \E inp \in ReadECGADC : ECGTask(inp)
  \/ \E lead \in {0, 1} : OLED_ECG(lead)
  \/ InitRESP
  \/ \E inp \in ReadRESPADC : RESPTask(inp)
  \/ OLED_RESP
  \/ InitSPO2
  \/ \E adc \in ReadSPO2ADC : SPO2_LED_Task(adc)
  \/ SPO2Task
  \/ OLED_SPO2

Spec == Init /\ [][Next]_vars

(* --------------------- the three channels together --------------------- *)

InitAll == Start({AllPlan})

SpecAll == InitAll /\ [][Next]_vars

(* ------------------ the SpO2 channel under a weak RED signal ----------- *)

\* the pulse strengths <<RED, IR>> of the runs whose RED signal stays weak
WeakScripts == {<<20, 4000>>, <<0, 4000>>}

InitWeak ==
  Start({Plan("SPO2", "strict", -1, sc,
              <<<<"InitSPO2", 1>>, <<"TimerTick", 8 * MaxWraps * SP_WAVE_LEN>>,
                <<"SPO2_LED_Task", 8 * MaxWraps * SP_WAVE_LEN>>,
                <<"SPO2Task", MaxWraps * SP_WAVE_LEN>>>>) : sc \in WeakScripts})

NextWeak ==
  \/ TimerTick
  \/ InitSPO2
  \/ \E adc \in ReadSPO2ADC : SPO2_LED_Task(adc)
  \/ SPO2Task

\* the dispatcher passes on to the call that comes next in its run
Dispatch == \E a \in Acts : May(a) /\ sch' = Called(a)

\* the timer interrupt and the main loop never stop: the dispatcher does not
\* halt while a call of its run is due
SpecWeak == InitWeak /\ [][NextWeak]_vars /\ WF_sch(Dispatch)

(* ----------------------- calSpO2 taken on its own ---------------------- *)

\* the largest ratio R (times 1000) fed to calSpO2 on its own
MaxR == 1300

RECURSIVE CalTimes(_, _, _, _)
\* n successive analysis cycles that call calSpO2 with the same two amplitudes
CalTimes(n, redPeak, irPeak, st) ==
  IF n = 0 THEN st
  ELSE LET c == CHOOSE x \in calSpO2(redPeak, irPeak, st.rValue_buf, st.value_SPO2) : TRUE
       IN CalTimes(n - 1, redPeak, irPeak,
                   [rValue_buf |-> c.cal.rValue_buf, value_SPO2 |-> c.cal.spo2,
                    value_R |-> c.value_R, rInt |-> c.cal.rInt,
                    tempBuf |-> c.cal.tempBuf])

\* calSpO2 called R_BUFSIZE times with amplitudes whose ratio is r/1000, so
\* that the ratio history holds r in every slot
CalRun(r) ==
  LET st == CalTimes(R_BUFSIZE, ToReal(r), ToReal(1000),
                     [rValue_buf |-> spo2.rValue_buf, value_SPO2 |-> spo2.value_SPO2,
                      value_R |-> spo2.value_R, rInt |-> 0, tempBuf |-> <<>>])
  IN /\ sch.chan = "CAL" /\ sch.left["calSpO2"] > 0
     /\ spo2' = [spo2 EXCEPT !.rValue_buf = st.rValue_buf,
                             !.value_SPO2 = st.value_SPO2,
                             !.value_R = st.value_R,
                             !.peak2peak_RED = ToReal(r),
                             !.peak2peak_IR = ToReal(1000)]
     /\ sch' = [sch EXCEPT !.left["calSpO2"] = @ - 1]
     /\ ev' = [NoEv EXCEPT !.op = "calSpO2", !.pre = spo2, !.rInt = st.rInt,
                 !.sorted = st.tempBuf]
     /\ UNCHANGED <<ecg, twin, resp, gpio, dac, TimeCounter, disp>>

InitCal ==
  /\ ecg = ECG_Start
  /\ twin = ECG_Start
  /\ resp = RESP_Start
  /\ spo2 = SPO2_Start
  /\ gpio = [LEAD_OFF |-> 0, ECG_ZERO |-> 0, RED |-> 0, IR |-> 0]
  /\ dac = 0
  /\ TimeCounter = 0
  /\ disp = [ecg |-> [lead |-> "", err |-> FALSE, num |-> 0],
             resp |-> [lead |-> "", err |-> FALSE, num |-> 0],
             spo2 |-> [hr |-> 0, spo2 |-> 0]]
  /\ sch = Plan("CAL", "any", 0, <<>>, <<<<"calSpO2", 1>>>>)
  /\ ev = NoEv

\* the values *spo2 may point at when calSpO2 is called as a function
CalOlds == {0, ToReal(50), ToReal(85), ToReal(150)}

\* calSpO2 called once as a function of its arguments and of the history: the
\* amplitudes have the ratio r/1000, the history holds r in its last four
\* slots (as after cycles of that ratio) and *spo2 points at old
CalOnce(r, old) ==
  LET c == CHOOSE x \in calSpO2(ToReal(r), ToReal(1000), <<0, r, r, r, r>>, old) : TRUE
  IN /\ sch.chan = "CAL" /\ sch.left["calSpO2"] > 0
     /\ spo2' = [spo2 EXCEPT !.rValue_buf = c.cal.rValue_buf,
                             !.value_SPO2 = c.cal.spo2,
                             !.value_R = c.value_R,
                             !.peak2peak_RED = ToReal(r),
                             !.peak2peak_IR = ToReal(1000)]
     /\ sch' = [sch EXCEPT !.left["calSpO2"] = @ - 1]
     /\ ev' = [NoEv EXCEPT !.op = "calSpO2 once",
                 !.pre = [spo2 EXCEPT !.value_SPO2 = old,
                                      !.rValue_buf = <<0, r, r, r, r>>],
                 !.rInt = c.cal.rInt, !.sorted = c.cal.tempBuf]
     /\ UNCHANGED <<ecg, twin, resp, gpio, dac, TimeCounter, disp>>

NextCal ==
  \/ \E r \in 0..MaxR : CalRun(r)
  \/ \E r \in 0..MaxR : \E old \in CalOlds : CalOnce(r, old)

SpecCal == InitCal /\ [][NextCal]_vars

(* ------------------------------ properties ----------------------------- *)

\* the last call was the SPO2Task call that wrapped the window
SPO2Wrap == ev.op = "SPO2Task" /\ ev.wrap

\* C1 as stated: no window-wrap call of SPO2Task both analyses the amplitudes
\* and changes the LED intensity s_DACdata.
C1_MeasureOrAdjust ==
  SPO2Wrap => ~(ev.analysed /\ spo2.s_DACdata # ev.pre.s_DACdata)

\* C1 amended: a wrap met with the cool-down running analyses nothing and
\* leaves the intensity alone (it only counts down); a wrap met with the
\* cool-down at zero analyses; and SPO2Task changes the intensity only inside
\* a wrap that analyses.
C1_AdjustOnlyInAnalysedWrap ==
  ev.op = "SPO2Task" =>
    /\ spo2.s_DACdata # ev.pre.s_DACdata => ev.wrap /\ ev.analysed
    /\ ev.wrap /\ ev.pre.adjust_wait_cnt > 0 =>
         /\ ~ev.analysed
         /\ spo2.s_DACdata = ev.pre.s_DACdata
         /\ spo2.peak2peak_RED = ev.pre.peak2peak_RED
         /\ spo2.peak2peak_IR = ev.pre.peak2peak_IR
         /\ spo2.adjust_wait_cnt = ev.pre.adjust_wait_cnt - 1
    /\ ev.wrap /\ ev.pre.adjust_wait_cnt = 0 => ev.analysed

\* a wrap that only waited, after an analysed wrap had changed the intensity
C1_Witness ==
  SPO2Wrap /\ ev.pre.adjust_wait_cnt > 0 /\ ev.pre.s_DACdata # 240 /\ ~ev.analysed

\* the smoother calls of the last call
SmCalls == {ev.sm[k] : k \in DOMAIN ev.sm}

\* the mean of the ring, at the model's resolution
MeanOf(buf, W) == FDiv(SeqSum(buf), W)

C3_ExactMean ==
  \A s \in SmCalls :
    s.pre.i = s.W =>
      /\ s.post.buf = Tail(s.pre.buf) \o <<s.in>>
      /\ s.out = MeanOf(s.post.buf, s.W)

\* the divisor k of the channel whose task ran last
KOf(op) == IF op = "SPO2Task" THEN 3 ELSE 4

\* the threshold of the channel whose task ran last
ThresholdOf(op) ==
  CASE op = "ECGTask" -> ecg.peakThreshold
    [] op = "RESPTask" -> resp.peakThreshold
    [] OTHER -> spo2.peakThreshold

\* C4: at every threshold refresh the new threshold is max - (max - min)/k
\* for the true maximum and minimum of the scanned samples.
C4_ThresholdFromTrueExtremes ==
  ev.refresh =>
    ThresholdOf(ev.op) =
      SeqMax(ev.win) - FDiv(SeqMax(ev.win) - SeqMin(ev.win), KOf(ev.op))

\* the samples of a batch that the mean is taken of
BatchOf(hr_buf, cur_hr) == SubSeq(hr_buf, 1, 4) \o <<cur_hr>>

\* C5: heartRate is updated exactly when the 5th instantaneous rate of a
\* batch is captured, to the integer mean of those 5 rates, and the
\* accumulator is then reset; an earlier peak of the batch only stores its
\* rate, so that no detected peak's rate is discarded.
C5_MeanOnFifthPeak ==
  ev.op = "SPO2Task" /\ ev.peak =>
    /\ ev.pre.hr_cnt < 4 =>
         /\ spo2.hr_buf[ev.pre.hr_cnt + 1] = ev.rate
         /\ spo2.hr_cnt = ev.pre.hr_cnt + 1
         /\ spo2.heartRate = ev.pre.heartRate
    /\ ev.pre.hr_cnt = 4 =>
         /\ spo2.heartRate = TruncDiv(SeqSum(BatchOf(ev.pre.hr_buf, ev.rate)), 5)
         /\ spo2.hr_cnt = 0
    /\ ev.pre.hr_cnt <= 4

\* the state InitSPO2 is said to restore
C6_SPO2Fields ==
  {"IIRLowpass_win_RED", "IIRLowpass_win_IR", "IIRHighpass_win_RED",
   "IIRHighpass_win_IR", "sm_RED", "sm_IR", "arr_SPO2_Wave_Rate",
   "arr_SPO2_Wave_RED", "arr_SPO2_Wave_IR", "SPO2_Wave_index", "peakThreshold",
   "lastPeak_index", "currentPeak_index", "heartRate", "hr_buf", "hr_cnt",
   "rValue_buf", "adjust_wait_cnt", "value_SPO2"}

\* C6: a call of InitECG, InitRESP or InitSPO2, whatever ran before, leaves
\* every piece of the channel's state at its power-on value.
C6_InitRestoresPowerOn ==
  /\ ev.op = "InitECG" => ecg = ECG_Start
  /\ ev.op = "InitRESP" => resp = RESP_Start
  /\ ev.op = "InitSPO2" => \A f \in C6_SPO2Fields : spo2[f] = SPO2_Start[f]

\* the wrap after a gain change only counts the cool-down down, and a wrap
\* met with the cool-down at zero analyses
C7_CoolDownShape ==
  /\ SPO2Wrap /\ ev.pre.adjust_wait_cnt = 1 =>
       ~ev.analysed /\ spo2.s_DACdata = ev.pre.s_DACdata /\ spo2.adjust_wait_cnt = 0
  /\ SPO2Wrap /\ ev.pre.adjust_wait_cnt = 0 => ev.analysed
  /\ spo2.adjust_wait_cnt \in {0, 1}

\* an analysed wrap that found RED too weak with the intensity below the top
C7_WeakRed ==
  /\ SPO2Wrap /\ ev.analysed
  /\ spo2.peak2peak_RED < ToReal(20)
  /\ ev.pre.s_DACdata < RED_INTENSITY_MAX

\* C7 as stated: in an analysed wrap with RED peak-to-peak below 20 and the
\* intensity below 500 the intensity rises by exactly 40 and the cool-down is
\* armed; the next wrap neither analyses nor changes the gain, and the wrap
\* after it analyses again.
C7_RaiseByExactlyStep ==
  /\ C7_WeakRed =>
       /\ spo2.s_DACdata = ev.pre.s_DACdata + RED_INTENSITY_STEP
       /\ spo2.adjust_wait_cnt = 1
  /\ C7_CoolDownShape

\* C7 amended: in such a wrap the intensity rises by 40 but never past 500
\* (from 480 it rises by 20 only) and the cool-down is armed; the next wrap
\* neither analyses nor changes the gain, and the wrap after it analyses
\* again.
C7_RaiseByStepUpToMax ==
  /\ C7_WeakRed =>
       /\ spo2.s_DACdata =
            (IF ev.pre.s_DACdata + RED_INTENSITY_STEP > RED_INTENSITY_MAX
             THEN RED_INTENSITY_MAX
             ELSE ev.pre.s_DACdata + RED_INTENSITY_STEP)
       /\ dac = spo2.s_DACdata
       /\ spo2.adjust_wait_cnt = 1
  /\ C7_CoolDownShape

\* the analysed wrap that raises the intensity from 480
C7_Witness ==
  C7_WeakRed /\ ev.pre.s_DACdata = 480 /\ spo2.s_DACdata = RED_INTENSITY_MAX

\* the 3rd smallest of five values
ThirdSmallest(buf) ==
  CHOOSE x \in {buf[k] : k \in DOMAIN buf} :
    /\ Cardinality({k \in DOMAIN buf : buf[k] < x}) <= 2
    /\ Cardinality({k \in DOMAIN buf : buf[k] <= x}) >= 3

\* C8: after every call of calSpO2 the median used for the lookup is the 3rd
\* smallest of the five values in the ratio history.
C8_MedianIsThirdSmallest ==
  ev.op = "SPO2Task" /\ ev.analysed => ev.rInt = ThirdSmallest(spo2.rValue_buf)

C10_Rows ==
  <<<<450, 99>>, <<470, 98>>, <<510, 97>>, <<540, 96>>, <<580, 95>>, <<600, 94>>,
    <<620, 93>>, <<640, 92>>, <<680, 91>>, <<720, 90>>, <<800, 89>>, <<940, 88>>,
    <<980, 87>>, <<1020, 86>>, <<1060, 85>>, <<1080, 84>>, <<1100, 83>>,
    <<1120, 82>>, <<1150, 81>>, <<1170, 80>>, <<1200, 79>>>>

\* the saturation of the row R falls in: the first row whose top is not below R
C10_RowOf(r) ==
  C10_Rows[CHOOSE k \in DOMAIN C10_Rows :
             /\ r <= C10_Rows[k][1]
             /\ \A j \in 1..(k - 1) : r > C10_Rows[j][1]][2]

\* C10: for every median R in 0..1200 calSpO2 assigns the saturation of the
\* calibration table, and a larger median in that range never gets a larger
\* saturation.
C10_TableMatches ==
  ev.op = "calSpO2" /\ ev.rInt \in 0..1200 =>
    /\ spo2.value_SPO2 = ToReal(C10_RowOf(ev.rInt))
    /\ \A r2 \in ev.rInt..1200 :
         ClampSpO2(SpO2Table(r2, ev.pre.value_SPO2)) <= spo2.value_SPO2

\* calSpO2 has looked up a median on a row boundary
C10_Witness ==
  /\ ev.op = "calSpO2" /\ ev.rInt = 451 /\ ev.sorted = <<451, 451, 451, 451, 451>>
  /\ spo2.value_SPO2 = ToReal(98)

\* InitSPO2 has been called in this run
SPO2Inited == sch.chan = "SPO2" /\ sch.left["InitSPO2"] = 0

\* C11: once InitSPO2 has been called, s_DACdata stays within
\* RED_INTENSITY_MIN..RED_INTENSITY_MAX, and a step that changes it is
\* InitSPO2 itself or an analysed window wrap of SPO2Task.
C11_IntensityInRange ==
  /\ [](SPO2Inited =>
          spo2.s_DACdata >= RED_INTENSITY_MIN /\ spo2.s_DACdata <= RED_INTENSITY_MAX)
  /\ [][spo2'.s_DACdata # spo2.s_DACdata =>
          \/ ev'.op = "InitSPO2"
          \/ ev'.op = "SPO2Task" /\ ev'.wrap /\ ev'.analysed]_vars

\* an analysed wrap has dimmed the LED down to the lower limit
C11_Witness ==
  /\ SPO2Inited /\ SPO2Wrap /\ ev.analysed
  /\ ev.pre.s_DACdata = 120 /\ spo2.s_DACdata = RED_INTENSITY_MIN

\* the channel record of the task that ran last
ChannelOf(op) ==
  CASE op = "ECGTask" -> ecg
    [] op = "RESPTask" -> resp
    [] OTHER -> spo2

\* the last call was a task that detected a peak later than the peak before
LaterPeak ==
  /\ ev.op \in {"ECGTask", "RESPTask", "SPO2Task"}
  /\ ev.peak
  /\ ev.pre.lastPeak_index < TimeCounter

\* C12: a peak detected at t2 after a peak at t1 < t2 gets the rate
\* 60000 / (t2 - t1) truncated toward zero (heartRate, breathRate, or the
\* SpO2 sample cur_hr), and the last-peak timestamp becomes t2.
C12_RateFromInterval ==
  LaterPeak =>
    LET r == 60000 \div (TimeCounter - ev.pre.lastPeak_index)
    IN /\ ChannelOf(ev.op).lastPeak_index = TimeCounter
       /\ ChannelOf(ev.op).currentPeak_index = TimeCounter
       /\ ev.op = "ECGTask" => ecg.heartRate = r
       /\ ev.op = "RESPTask" => resp.breathRate = r
       /\ ev.op = "SPO2Task" =>
            /\ ev.rate = r
            /\ ev.pre.hr_cnt <= 4 => spo2.hr_buf[ev.pre.hr_cnt + 1] = r

\* an ECG peak some ticks after an earlier ECG peak
C12_Witness ==
  /\ LaterPeak /\ ev.op = "ECGTask"
  /\ ev.pre.lastPeak_index > 0
  /\ TimeCounter - ev.pre.lastPeak_index > 1
  /\ ecg.heartRate = 60000 \div (TimeCounter - ev.pre.lastPeak_index)

LenOf(op) ==
  CASE op = "ECGTask" -> HR_WAVE_LEN
    [] op = "RESPTask" -> BR_WAVE_LEN
    [] OTHER -> SP_WAVE_LEN

IndexOf(op) ==
  CASE op = "ECGTask" -> ecg.ECG_Wave_index
    [] op = "RESPTask" -> resp.BR_Wave_index
    [] OTHER -> spo2.SPO2_Wave_index

\* C14: when ECGTask, RESPTask or SPO2Task returns, the write index is in
\* 0..L-1; it is back at 0 exactly on every L-th call since the channel's
\* Init; and a wrap of ECG or RESP refreshes the threshold.
C14_WrapEveryLthCall ==
  ev.op \in {"ECGTask", "RESPTask", "SPO2Task"} =>
    /\ IndexOf(ev.op) \in 0..(LenOf(ev.op) - 1)
    /\ IndexOf(ev.op) = 0 <=> sch.calls % LenOf(ev.op) = 0
    /\ ev.wrap <=> IndexOf(ev.op) = 0
    /\ ev.op # "SPO2Task" /\ ev.wrap => ev.refresh

\* C15: the ratio redPeak / irPeak computed by calSpO2 in an analysis cycle
\* never has a zero divisor.
C15_RatioDivisorNonZero ==
  ev.op = "SPO2Task" /\ ev.analysed => spo2.peak2peak_IR # 0

\* C16: after InitECG, InitRESP or InitSPO2, whatever ran before, every
\* biquad delay line of the channel is all-zero (so that zero input gives
\* zero output from then on).
C16_DelayLinesZeroAfterInit ==
  /\ ev.op = "InitECG" =>
       /\ ecg.IIRNotch_win = Zeros(3)
       /\ ecg.IIRHighpass_win = Zeros(3)
       /\ ecg.IIRLowpass_win = Zeros(3)
  /\ ev.op = "InitRESP" =>
       /\ resp.IIRNotch_win = Zeros(3)
       /\ resp.IIRLowpass_win = Zeros(3)
  /\ ev.op = "InitSPO2" =>
       /\ spo2.IIRHighpass_win_RED = Zeros(3)
       /\ spo2.IIRHighpass_win_IR = Zeros(3)
       /\ spo2.IIRLowpass_win_RED = Zeros(3)
       /\ spo2.IIRLowpass_win_IR = Zeros(3)

\* C17: OLED_ECG shows the heart rate exactly when the lead-off input is 0
\* and 20 <= heartRate <= 250, and Err otherwise; OLED_RESP shows the breath
\* rate exactly when 600 <= s_peak2peak <= 3000 and 5 <= breathRate <= 100,
\* and Err otherwise; neither changes the stored rate.
C17_DisplayGuards ==
  /\ ev.op = "OLED_ECG" =>
       /\ ~disp.ecg.err <=>
            gpio.LEAD_OFF = 0 /\ ecg.heartRate >= 20 /\ ecg.heartRate <= 250
       /\ ~disp.ecg.err => disp.ecg.num = ecg.heartRate
       /\ ecg = ev.pre
  /\ ev.op = "OLED_RESP" =>
       /\ ~disp.resp.err <=>
            /\ resp.s_peak2peak >= ToReal(600) /\ resp.s_peak2peak <= ToReal(3000)
            /\ resp.breathRate >= 5 /\ resp.breathRate <= 100
       /\ ~disp.resp.err => disp.resp.num = resp.breathRate
       /\ resp = ev.pre

\* OLED_RESP has shown a breath rate
C17_Witness ==
  ev.op = "OLED_RESP" /\ ~disp.resp.err /\ disp.resp.num = resp.breathRate

\* what belongs to each channel: its statics, its pins, its display fields
ECGState == <<ecg, gpio.LEAD_OFF, gpio.ECG_ZERO, disp.ecg>>

RESPState == <<resp, disp.resp>>

SPO2State == <<spo2, gpio.RED, gpio.IR, dac, disp.spo2>>

\* C18: an entry point of one channel (Init, task, display routine, and
\* SPO2_LED_Task) leaves the state of the two other channels unchanged,
\* however the calls of the three channels are interleaved.
C18_ChannelsIndependent ==
  [][/\ ev'.op \in {"InitECG", "ECGTask", "OLED_ECG"} =>
          RESPState' = RESPState /\ SPO2State' = SPO2State
     /\ ev'.op \in {"InitRESP", "RESPTask", "OLED_RESP"} =>
          ECGState' = ECGState /\ SPO2State' = SPO2State
     /\ ev'.op \in {"InitSPO2", "SPO2_LED_Task", "SPO2Task", "OLED_SPO2"} =>
          ECGState' = ECGState /\ RESPState' = RESPState]_vars

\* a display call of ECG made while the two other channels have processed
\* samples
C18_Witness ==
  /\ sch.chan = "ALL" /\ ev.op = "OLED_ECG"
  /\ ecg.IIRNotch_win # Zeros(3)
  /\ resp.IIRNotch_win # Zeros(3)
  /\ spo2.IIRHighpass_win_RED # Zeros(3)
  /\ gpio.RED = 0 /\ gpio.ECG_ZERO = 1

\* C19: after every call of calSpO2 the stored saturation lies in 70..100,
\* whatever the median and whatever the value stored before.
C19_SaturationInRange ==
  (ev.op = "SPO2Task" /\ ev.analysed) \/ ev.op \in {"calSpO2", "calSpO2 once"} =>
    spo2.value_SPO2 >= ToReal(70) /\ spo2.value_SPO2 <= ToReal(100)

\* a call with a median above the table and a stored value below the range
C19_Witness ==
  /\ ev.op = "calSpO2 once" /\ ev.rInt > 1200
  /\ ev.pre.value_SPO2 < ToReal(70)
  /\ spo2.value_SPO2 = ToReal(70)

\* C20: during one pass over an L-sample window the peak test is skipped on
\* exactly two calls and reached on the other L - 2, in ECGTask, RESPTask and
\* SPO2Task.
C20_TwoTicksSkipped ==
  ev.op \in {"ECGTask", "RESPTask", "SPO2Task"} /\ ev.wrap =>
    sch.evals = LenOf(ev.op) - 2

\* C21: a window wrap of SPO2Task that finds the cool-down counter positive
\* lowers it by exactly one and leaves peak2peak_RED, peak2peak_IR, value_R,
\* value_SPO2, the ratio history, peakThreshold and s_DACdata as they were.
C21_CoolDownWrapFrame ==
  SPO2Wrap /\ ev.pre.adjust_wait_cnt > 0 =>
    /\ spo2.adjust_wait_cnt = ev.pre.adjust_wait_cnt - 1
    /\ spo2.peak2peak_RED = ev.pre.peak2peak_RED
    /\ spo2.peak2peak_IR = ev.pre.peak2peak_IR
    /\ spo2.value_R = ev.pre.value_R
    /\ spo2.value_SPO2 = ev.pre.value_SPO2
    /\ spo2.rValue_buf = ev.pre.rValue_buf
    /\ spo2.peakThreshold = ev.pre.peakThreshold
    /\ spo2.s_DACdata = ev.pre.s_DACdata

\* a cool-down wrap over a window whose amplitudes differ from the stored ones
C21_Witness ==
  /\ SPO2Wrap /\ ev.pre.adjust_wait_cnt > 0
  /\ spo2.adjust_wait_cnt = 0
  /\ LET an == Analyze_SPO2Wave(spo2.arr_SPO2_Wave_RED, spo2.arr_SPO2_Wave_IR,
                                spo2.arr_SPO2_Wave_Rate, SP_WAVE_LEN)
     IN an.ppRed # spo2.peak2peak_RED /\ an.thr # spo2.peakThreshold

\* C22: in an analysed wrap of SPO2Task the cool-down counter is set to
\* ADJUST_STABLE_DELAY exactly when s_DACdata changed; with the RED amplitude
\* in [20, 80], or below 20 at intensity 500, or above 80 at intensity 100,
\* intensity and counter stay as they were; a step down never leaves
\* s_DACdata below 100 and never wraps the 16-bit value.
C22_ArmIffChanged ==
  ev.op = "SPO2Task" /\ ev.analysed =>
    LET pp == spo2.peak2peak_RED
        old == ev.pre.s_DACdata
        changed == spo2.s_DACdata # old
        kept == /\ spo2.s_DACdata = old
                /\ spo2.adjust_wait_cnt = ev.pre.adjust_wait_cnt
    IN /\ (spo2.adjust_wait_cnt = ADJUST_STABLE_DELAY) <=> changed
       /\ ~changed => kept
       /\ pp >= ToReal(20) /\ pp <= ToReal(80) => kept
       /\ pp < ToReal(20) /\ old = RED_INTENSITY_MAX => kept
       /\ pp > ToReal(80) /\ old = RED_INTENSITY_MIN => kept
       /\ pp > ToReal(80) => spo2.s_DACdata <= old
       /\ spo2.s_DACdata < old =>
            /\ spo2.s_DACdata >= RED_INTENSITY_MIN
            /\ spo2.s_DACdata = IF old - RED_INTENSITY_STEP < RED_INTENSITY_MIN
                                THEN RED_INTENSITY_MIN
                                ELSE old - RED_INTENSITY_STEP

\* an analysed wrap with a strong RED signal and the intensity already at 100
C22_Witness ==
  /\ ev.op = "SPO2Task" /\ ev.analysed
  /\ spo2.peak2peak_RED > ToReal(80)
  /\ ev.pre.s_DACdata = RED_INTENSITY_MIN
  /\ spo2.s_DACdata = RED_INTENSITY_MIN
  /\ spo2.adjust_wait_cnt = 0

\* C23: with SPO2Task called once per 8 calls of SPO2_LED_Task, at whatever
\* fixed phase of the LED cycle, exactly one RED sample and exactly one IR
\* sample are latched between two consecutive SPO2Task calls, so no latched
\* sample is skipped and none is filtered twice.
C23_OneSamplePairPerCall ==
  sch.order = "strict" /\ ev.op = "SPO2Task" /\ sch.calls > 1 =>
    sch.consumed = <<1, 1>>

\* a later SPO2Task call of a run that calls it between the two latches
C23_Witness ==
  /\ sch.order = "strict" /\ ev.op = "SPO2Task" /\ sch.calls > 1
  /\ sch.phase = 4 /\ spo2.state = 4
  /\ sch.consumed = <<1, 1>>

\* C24: a peak detected at the timestamp of the stored last peak (interval 0)
\* does not make the rate computation of ECGTask, RESPTask or SPO2Task divide
\* by zero: the interval is rejected (the stored rate is left as it was) or
\* clamped (the rate is that of some interval of at least 1 ms).
C24_ZeroIntervalHandled ==
  ev.op \in {"ECGTask", "RESPTask", "SPO2Task"} /\ ev.peak /\ ev.dt = 0 =>
    \/ ev.rate \in 1..60000
    \/ /\ ev.op = "ECGTask" => ecg.heartRate = ev.pre.heartRate
       /\ ev.op = "RESPTask" => resp.breathRate = ev.pre.breathRate
       /\ ev.op = "SPO2Task" => /\ spo2.hr_buf = ev.pre.hr_buf
                                /\ spo2.heartRate = ev.pre.heartRate

\* C25: in each channel a call other than the channel's Init changes the
\* threshold only if it is the task call that wraps the window index, and
\* changes the stored rate or the last-peak timestamp only if it is a task
\* call in which the two newest window samples cross the threshold (older <=
\* threshold <= newer for ECG and RESP, older >= threshold >= newer for SpO2),
\* the threshold being the one stored by the last refresh.
C25_UpdateDiscipline ==
  [][/\ ev'.op # "InitECG" =>
          /\ ecg'.peakThreshold # ecg.peakThreshold =>
               ev'.op = "ECGTask" /\ ev'.wrap
          /\ (\/ ecg'.heartRate # ecg.heartRate
              \/ ecg'.lastPeak_index # ecg.lastPeak_index) =>
               /\ ev'.op = "ECGTask" /\ ecg'.ECG_Wave_index >= 2
               /\ ecg'.peakThreshold = ecg.peakThreshold
               /\ ecg'.arr_ECG_Wave[ecg'.ECG_Wave_index - 1] <= ecg.peakThreshold
               /\ ecg'.arr_ECG_Wave[ecg'.ECG_Wave_index] >= ecg.peakThreshold
     /\ ev'.op # "InitRESP" =>
          /\ resp'.peakThreshold # resp.peakThreshold =>
               ev'.op = "RESPTask" /\ ev'.wrap
          /\ (\/ resp'.breathRate # resp.breathRate
              \/ resp'.lastPeak_index # resp.lastPeak_index) =>
               /\ ev'.op = "RESPTask" /\ resp'.BR_Wave_index >= 2
               /\ resp'.peakThreshold = resp.peakThreshold
               /\ resp'.arr_BR_Wave[resp'.BR_Wave_index - 1] <= resp.peakThreshold
               /\ resp'.arr_BR_Wave[resp'.BR_Wave_index] >= resp.peakThreshold
     /\ ev'.op # "InitSPO2" =>
          /\ spo2'.peakThreshold # spo2.peakThreshold =>
               ev'.op = "SPO2Task" /\ ev'.wrap
          /\ (\/ spo2'.heartRate # spo2.heartRate
              \/ spo2'.hr_buf # spo2.hr_buf
              \/ spo2'.lastPeak_index # spo2.lastPeak_index) =>
               /\ ev'.op = "SPO2Task" /\ spo2'.SPO2_Wave_index >= 2
               /\ spo2'.peakThreshold = spo2.peakThreshold
               /\ spo2'.arr_SPO2_Wave_Rate[spo2'.SPO2_Wave_index - 1]
                    >= spo2.peakThreshold
               /\ spo2'.arr_SPO2_Wave_Rate[spo2'.SPO2_Wave_index]
                    <= spo2.peakThreshold]_vars

\* an ECG call that finds a rising crossing of a threshold refreshed earlier
\* and replaces the stored rate and timestamp
C25_Witness ==
  /\ ev.op = "ECGTask" /\ ev.peak
  /\ sch.calls > HR_WAVE_LEN
  /\ ecg.peakThreshold = ev.pre.peakThreshold
  /\ ecg.arr_ECG_Wave[ecg.ECG_Wave_index - 1] < ecg.peakThreshold
  /\ ecg.arr_ECG_Wave[ecg.ECG_Wave_index] > ecg.peakThreshold
  /\ ecg.heartRate # ev.pre.heartRate
  /\ ecg.lastPeak_index # ev.pre.lastPeak_index

\* C26: the ECG numeric state does not depend on the lead-off input: a run
\* whose lead-off pin and OLED_ECG calls are arbitrary has, after the same
\* samples and timer ticks, the filter delay lines, smoother state, window,
\* threshold, peak timestamps and heartRate of the run whose lead never comes
\* off; and OLED_ECG changes none of them.
C26_LeadOffIndependence ==
  /\ [](twin = ecg)
  /\ [][ev'.op = "OLED_ECG" => ecg' = ecg]_vars

\* lead-off was reported, and a later ECGTask call has found a peak and
\* stored a rate
C26_Witness ==
  /\ ev.op = "ECGTask" /\ ev.peak
  /\ gpio.LEAD_OFF = 1 /\ disp.ecg.lead = "Noob"
  /\ ecg.heartRate > 0 /\ ecg.heartRate <= 60000
  /\ twin = ecg

\* C27: after an analysis cycle the ratio history is the history before it
\* shifted left by one slot (the oldest value gone) with the R value of this
\* cycle, truncated to an integer, in the last slot; while fewer than 5
\* analyses have run since power-on the leading slots are 0; the median is
\* taken from a sorted copy, the history stays in arrival order; a call that
\* does not analyse leaves the history as it was.
C27_HistoryHoldsLastFive ==
  ev.op = "SPO2Task" =>
    IF ev.analysed
    THEN /\ spo2.value_R.kind = "finite"
         /\ spo2.rValue_buf = Tail(ev.pre.rValue_buf) \o <<ToInt(spo2.value_R.v)>>
         /\ \A i \in 1..R_BUFSIZE :
              i <= R_BUFSIZE - sch.analyses => spo2.rValue_buf[i] = 0
         /\ ev.sorted = bubbleSort(spo2.rValue_buf, R_BUFSIZE)
    ELSE spo2.rValue_buf = ev.pre.rValue_buf

\* C28: once InitSPO2 has run the RED and IR LEDs are never both on; a RED
\* sample is latched only with RED on, IR off and RED on for at least 2 LED
\* steps, an IR sample only with IR on, RED off and IR on for at least 2 LED
\* steps (the pins and their age being those the step finds when it reads the
\* converter).
C28_LatchUnderOwnLight ==
  /\ [](SPO2Inited => ~(gpio.RED = 1 /\ gpio.IR = 1))
  /\ [][SPO2Inited /\ ev'.op = "SPO2_LED_Task" =>
          /\ spo2'.state = 2 =>
               gpio.RED = 1 /\ gpio.IR = 0 /\ sch.lit + 1 >= 2
          /\ spo2'.state = 6 =>
               gpio.IR = 1 /\ gpio.RED = 0 /\ sch.lit + 1 >= 2]_vars

C30_FirstTwoCyclesStore99 ==
  ev.op = "SPO2Task" /\ ev.analysed /\ sch.analyses <= 2 =>
    /\ ev.rInt = 0
    /\ spo2.value_SPO2 = ToReal(99)

\* the third analysis of a run that measured ratios above the 99 row in its
\* first two analyses (they are in the history) and now stores less than 99
C30_Witness ==
  /\ ev.op = "SPO2Task" /\ ev.analysed /\ sch.analyses = 3
  /\ spo2.rValue_buf[1] = 0 /\ spo2.rValue_buf[2] = 0
  /\ spo2.rValue_buf[3] > 450 /\ spo2.rValue_buf[4] > 450
  /\ ev.rInt > 450
  /\ ev.pre.value_SPO2 = ToReal(99)
  /\ spo2.value_SPO2 < ToReal(99)

(* C31: in ECGTask, RESPTask and SPO2Task every window write and read uses  *)
(* a slot within 0..L-1; when the peak test is evaluated, the two slots it  *)
(* reads (index-2 and index-1) were both written since the write index was  *)
(* last 0, none is left from the pass before; and the threshold refresh at  *)
(* a wrap scans a window whose last slot holds the sample this call wrote.  *)
C31_WindowIndexDiscipline ==
  LET Slots(len) == 0..(len - 1)
      Within(len, index, task) ==
        /\ ev.wrote \subseteq Slots(len)
        /\ ev.reads \subseteq Slots(len)
        /\ index \in Slots(len)
        /\ ev.evald => /\ ev.reads = {index - 2, index - 1}
                       /\ ev.reads \subseteq sch.fresh[task]
      \* the refresh scanned window, the stored array, whose slot at holds sample
      Scanned(window, at, sample) ==
        ev.refresh => /\ ev.wrote = {Len(window) - 1}
                      /\ window[Len(window)] = sample
                      /\ at \in 1..Len(ev.win)
                      /\ ev.win[at] = sample
  IN /\ ev.op = "ECGTask" =>
          /\ Within(HR_WAVE_LEN, ecg.ECG_Wave_index, "ECGTask")
          /\ \A k \in ev.wrote : ecg.arr_ECG_Wave[k + 1] = ev.sm[1].out
          /\ Scanned(ecg.arr_ECG_Wave, HR_WAVE_LEN - 1, ev.sm[1].out)
          /\ ev.refresh => ev.win = SubSeq(ecg.arr_ECG_Wave, 2, HR_WAVE_LEN)
     /\ ev.op = "RESPTask" =>
          /\ Within(BR_WAVE_LEN, resp.BR_Wave_index, "RESPTask")
          /\ \A k \in ev.wrote : resp.arr_BR_Wave[k + 1] = ev.sm[1].out
          /\ Scanned(resp.arr_BR_Wave, BR_WAVE_LEN - 1, ev.sm[1].out)
          /\ ev.refresh => ev.win = SubSeq(resp.arr_BR_Wave, 2, BR_WAVE_LEN)
     /\ ev.op = "SPO2Task" =>
          /\ Within(SP_WAVE_LEN, spo2.SPO2_Wave_index, "SPO2Task")
          /\ \A k \in ev.wrote :
               /\ spo2.arr_SPO2_Wave_RED[k + 1] = ev.sm[1].out
               /\ spo2.arr_SPO2_Wave_IR[k + 1] = ev.sm[2].out
               /\ spo2.arr_SPO2_Wave_Rate[k + 1] = ev.sm[2].out
          /\ Scanned(spo2.arr_SPO2_Wave_Rate, SP_WAVE_LEN, ev.sm[2].out)
          /\ ev.refresh => ev.win = spo2.arr_SPO2_Wave_Rate
     /\ ev.op \in {"ECGTask", "RESPTask", "SPO2Task"} => Cardinality(ev.wrote) = 1

\* an ECGTask call in the second pass over the window reaches the peak test:
\* the slots beyond the two it reads still hold samples of the first pass
C31_Witness ==
  /\ ev.op = "ECGTask" /\ ev.evald
  /\ sch.calls > HR_WAVE_LEN
  /\ sch.fresh["ECGTask"] # 0..(HR_WAVE_LEN - 1)
  /\ ev.reads = {ecg.ECG_Wave_index - 2, ecg.ECG_Wave_index - 1}

====
